---- MODULE Spec2Model ----
(***************************************************************************)
(* A model of the front end of the tiger compiler: the scoped symbol       *)
(* table (include/semantic/symbol_table.hpp), the escape analyzer          *)
(* (src/translate/escape.cpp), the semantic analyzer                      *)
(* (src/semantic/semantic_analyzer.cpp, include/semantic/types.hpp) and    *)
(* the IR generator (src/ir/ir_generator.cpp, src/translate).              *)
(*                                                                         *)
(* Each component is a state machine of its own; a specification drives    *)
(* one component and leaves the variables of the others untouched.         *)
(***************************************************************************)
EXTENDS Integers, Sequences, FiniteSets, TLC

VARIABLES
    \* --- the symbol table on its own
    scopes_,      \* SymbolTable::scopes_ : a stack of maps name -> value
    oplog,        \* history of the operations applied to the table
    \* --- the escape analyzer
    envStack_,    \* EscapeAnalyzer::envStack_ : stack of maps name -> EscapeEntry
    depth_,       \* EscapeAnalyzer::depth_
    escapeBit,    \* the escape fields of the AST, one per declaration met so far
    escCtl,       \* the visit() calls in progress, outermost first
    escPc,        \* "init", "visit" (inside analyze) or "done"
    refEnv,       \* the value namespace as the semantic analyzer scopes it
    declDepth,    \* function nesting depth of each declaration
    usedDeeper,   \* declarations referenced from a deeper function body
    \* --- the semantic analyzer
    heap,         \* the Type objects alive, by identity (1..4 the singletons)
    typeEnv_,     \* Environment::typeEnv_
    valueEnv_,    \* Environment::valueEnv_
    nextRecordId_,\* TypeContext::nextRecordId_
    nextArrayId_, \* TypeContext::nextArrayId_
    loopDepth_,   \* Environment::loopDepth_
    currentReturnType_,  \* SemanticAnalyzer::currentReturnType_
    semCtl,       \* the visit() calls in progress, outermost first
    semStatus,    \* "run", "error" (a SemanticError left analyze), "crash" or "done"
    semDecls,     \* how many declarations have been analyzed
    fragment,     \* the part of the language the program is written in
    semLast,      \* what the last step analyzed and how it was judged
    \* --- the IR generator
    gen,          \* the IRGenerator object, its frame factory and its levels
    bound,        \* the value and function tables as the semantic analyzer scopes them
    irCtl,        \* the visit() calls in progress, outermost first
    irPc,         \* "init", "run" (inside generate) or "done"
    irProg,       \* what the program read so far contains
    irLast,       \* what the last step translated
    cpu           \* a machine that runs the IR of the program body

symVars == <<scopes_, oplog>>
escVars == <<envStack_, depth_, escapeBit, escCtl, escPc, refEnv, declDepth, usedDeeper>>
semVars == <<heap, typeEnv_, valueEnv_, nextRecordId_, nextArrayId_, loopDepth_,
             currentReturnType_, semCtl, semStatus, semDecls, semLast, fragment>>
irVars == <<gen, bound, irCtl, irPc, irProg, irLast, cpu>>
vars == <<scopes_, oplog, envStack_, depth_, escapeBit, escCtl, escPc, refEnv,
          declDepth, usedDeeper, heap, typeEnv_, valueEnv_, nextRecordId_,
          nextArrayId_, loopDepth_, currentReturnType_, semCtl, semStatus, semDecls,
          semLast, fragment, gen, bound, irCtl, irPc, irProg, irLast, cpu>>

\* ------------------------------------------------------------------------
\* Bounds of the model
\* ------------------------------------------------------------------------
MaxOps == 5          \* number of symbol-table operations in one run

Names == {"x", "y"}
Values == {"v1", "v2"}
NoValue == "none"    \* T(): the default value lookup returns when not found

\* ------------------------------------------------------------------------
\* Maps (std::unordered_map<std::string, T>) as functions on a set of names
\* ------------------------------------------------------------------------
EmptyMap == [n \in {} |-> NoValue]

MapPut(m, n, v) == [k \in (DOMAIN m) \cup {n} |-> IF k = n THEN v ELSE m[k]]

\* ------------------------------------------------------------------------
\* SymbolTable<T>
\* ------------------------------------------------------------------------
\* beginScope(): scopes_.emplace_back()
beginScope(scopes) == Append(scopes, EmptyMap)

\* endScope(): pop the innermost scope, nothing on an empty stack
endScope(scopes) ==
    IF Len(scopes) > 0 THEN SubSeq(scopes, 1, Len(scopes) - 1) ELSE scopes

\* enter(name, value): scopes_.back()[name] = value, nothing on an empty stack
enter(scopes, name, value) ==
    IF Len(scopes) > 0
    THEN [scopes EXCEPT ![Len(scopes)] = MapPut(@, name, value)]
    ELSE scopes

\* lookup(name), searching from scope i down to scope 1; none is T(), the
\* default value of the instantiation
RECURSIVE lookupFrom(_, _, _, _)
lookupFrom(scopes, i, name, none) ==
    IF i = 0 THEN none
    ELSE IF name \in DOMAIN scopes[i] THEN scopes[i][name]
    ELSE lookupFrom(scopes, i - 1, name, none)

\* the same search in the wrong direction (outermost scope first)
RECURSIVE lookupOuterFirst(_, _, _)
lookupOuterFirst(scopes, i, name) ==
    IF i > Len(scopes) THEN NoValue
    ELSE IF name \in DOMAIN scopes[i] THEN scopes[i][name]
    ELSE lookupOuterFirst(scopes, i + 1, name)

lookupWrongOrder(scopes, name) == lookupOuterFirst(scopes, 1, name)

lookup(scopes, name) == lookupFrom(scopes, Len(scopes), name, NoValue)

\* existsInCurrentScope(name)
existsInCurrentScope(scopes, name) ==
    Len(scopes) > 0 /\ name \in DOMAIN scopes[Len(scopes)]

\* scopeDepth()
scopeDepth(scopes) == Len(scopes)

\* The constructor opens the global scope.
SymStart ==
    /\ scopes_ = beginScope(<<>>)
    /\ oplog = <<>>

\* The escape analyzer after construction: depth_(0), no scope.
EscStart ==
    /\ envStack_ = <<>>
    /\ depth_ = 0
    /\ escapeBit = <<>>
    /\ escCtl = <<>>
    /\ escPc = "init"
    /\ refEnv = beginScope(<<>>)
    /\ declDepth = <<>>
    /\ usedDeeper = {}

SymBeginScope ==
    /\ Len(oplog) < MaxOps
    /\ scopes_' = beginScope(scopes_)
    /\ oplog' = Append(oplog, [op |-> "begin"])
    /\ UNCHANGED <<escVars, semVars, irVars>>

SymEndScope ==
    /\ Len(oplog) < MaxOps
    /\ scopes_' = endScope(scopes_)
    /\ oplog' = Append(oplog, [op |-> "end"])
    /\ UNCHANGED <<escVars, semVars, irVars>>

SymEnter ==
    /\ Len(oplog) < MaxOps
    /\ \E n \in Names, v \in Values :
        /\ scopes_' = enter(scopes_, n, v)
        /\ oplog' = Append(oplog, [op |-> "enter", name |-> n, value |-> v])
    /\ UNCHANGED <<escVars, semVars, irVars>>

SymNext == SymBeginScope \/ SymEndScope \/ SymEnter

\* ------------------------------------------------------------------------
\* What the history of operations says lookup has to return.
\* ------------------------------------------------------------------------
\* Number of open scopes after the first k operations of the history.
RECURSIVE OpenAfter(_, _)
OpenAfter(h, k) ==
    IF k = 0 THEN 1
    ELSE LET d == OpenAfter(h, k - 1) IN
         CASE h[k].op = "begin" -> d + 1
           [] h[k].op = "end"   -> IF d > 0 THEN d - 1 ELSE 0
           [] OTHER             -> d

\* The enter at position k went into a scope that is still open at the end.
StillOpen(h, k) ==
    /\ h[k].op = "enter"
    /\ OpenAfter(h, k) > 0
    /\ \A j \in (k + 1)..Len(h) : OpenAfter(h, j) >= OpenAfter(h, k)

Visible(h, name) == {k \in 1..Len(h) : StillOpen(h, k) /\ h[k].name = name}

\* k is the binding lookup has to find: innermost scope first, latest entry
\* within the scope.
Winner(h, name, k) ==
    /\ k \in Visible(h, name)
    /\ \A j \in Visible(h, name) :
         \/ OpenAfter(h, j) < OpenAfter(h, k)
         \/ (OpenAfter(h, j) = OpenAfter(h, k) /\ j <= k)

Expected(h, name) ==
    IF Visible(h, name) = {} THEN NoValue
    ELSE LET k == CHOOSE i \in Visible(h, name) : Winner(h, name, i) IN h[k].value

\* C2: after every sequence of beginScope / enter / endScope, lookup(name)
\* returns the value most recently entered for the name in the innermost
\* still-open scope that holds it, and the default value when no open scope
\* holds it: bindings of closed scopes are gone and shadowed outer bindings
\* come back.
C2_LookupInnermost ==
    \A n \in Names : lookup(scopes_, n) = Expected(oplog, n)

\* An outer binding was shadowed in an inner scope, the inner scope has been
\* closed, and the name is still bound.
C2_Witness ==
    \E i, j, k \in 1..Len(oplog) :
        /\ i < j /\ j < k
        /\ oplog[i].op = "enter" /\ oplog[j].op = "enter" /\ oplog[k].op = "end"
        /\ oplog[i].name = oplog[j].name /\ oplog[i].value # oplog[j].value
        /\ OpenAfter(oplog, j) = OpenAfter(oplog, i) + 1
        /\ StillOpen(oplog, i) /\ ~StillOpen(oplog, j)
        /\ lookup(scopes_, oplog[i].name) = oplog[i].value

\* ========================================================================
\* Escape analyzer (src/translate/escape.cpp)
\* ========================================================================
MaxDecls == 3        \* declarations (var, parameter, for index) in a program
MaxNest == 3         \* let / function / for constructs open at once

\* The expressions the traversal meets, by the shape that matters to the
\* analyzer: which simple identifiers it reaches and in which order.
IntE == [k |-> "int"]
Atoms == {IntE} \cup {[k |-> "simple", name |-> n] : n \in Names}
LValues == {[k |-> "simple", name |-> n] : n \in Names}
             \cup {[k |-> "field", base |-> n] : n \in Names}
             \cup {[k |-> "subscript", base |-> n, index |-> a] : n \in Names, a \in Atoms}
Exprs == Atoms \cup LValues
           \cup {[k |-> "assign", var |-> l, expr |-> a] :
                    l \in {v \in LValues : v.k # "subscript"}, a \in Atoms}

\* visit(VarExpr*), visit(IntExpr*), visit(AssignExpr*): the simple
\* identifiers handed to checkEscape, in order.
RECURSIVE Occurrences(_)
Occurrences(e) ==
    CASE e.k = "int"       -> <<>>
      [] e.k = "simple"    -> <<e.name>>
      [] e.k = "field"     -> <<e.base>>
      [] e.k = "subscript" -> <<e.base>> \o Occurrences(e.index)
      [] e.k = "assign"    -> Occurrences(e.var) \o Occurrences(e.expr)

\* EscapeEntry(depth, escape): escape points at the AST flag of declaration d
EscapeEntry(d, flag) == [depth |-> d, escape |-> flag]

\* enterVar(name, escapeFlag)
enterVar(stack, depth, name, flag) ==
    IF Len(stack) > 0
    THEN [stack EXCEPT ![Len(stack)] = MapPut(@, name, EscapeEntry(depth, flag))]
    ELSE stack

\* checkEscape(name), the loop: the innermost scope, from i down, that
\* holds the name (0 when none does)
RECURSIVE findScope(_, _, _)
findScope(stack, i, name) ==
    IF i = 0 THEN 0
    ELSE IF name \in DOMAIN stack[i] THEN i
    ELSE findScope(stack, i - 1, name)

\* checkEscape(name): the innermost entry of the name gets its flag set when
\* the current depth is greater than the depth of the declaration
checkEscape(stack, depth, bits, name) ==
    LET i == findScope(stack, Len(stack), name) IN
    IF i # 0 /\ depth > stack[i][name].depth /\ stack[i][name].escape # 0
    THEN [bits EXCEPT ![stack[i][name].escape] = TRUE]
    ELSE bits

\* accept() on an expression: checkEscape on each identifier it reaches
RECURSIVE checkAll(_, _, _, _)
checkAll(stack, depth, bits, names) ==
    IF names = <<>> THEN bits
    ELSE checkAll(stack, depth, checkEscape(stack, depth, bits, Head(names)), Tail(names))

\* ---- the reference: how the semantic analyzer binds an occurrence --------
\* Number of function bodies around the current position.
FunDepth == Cardinality({i \in 1..Len(escCtl) : escCtl[i] = "fun"})

\* Declarations that an occurrence of each name, resolved in the value
\* namespace env, refers to from a deeper function body than their own.
RECURSIVE DeeperRefs(_, _)
DeeperRefs(env, names) ==
    IF names = <<>> THEN {}
    ELSE LET i == findScope(env, Len(env), Head(names)) IN
         (IF i # 0 /\ FunDepth > declDepth[env[i][Head(names)]]
          THEN {env[i][Head(names)]} ELSE {})
            \cup DeeperRefs(env, Tail(names))

InDecls == escCtl # <<>> /\ escCtl[Len(escCtl)] = "letD"
Top == IF escCtl = <<>> THEN "root" ELSE escCtl[Len(escCtl)]

\* An expression ends the declaration part of the let it stands in.
AfterExpr(ctl) ==
    IF ctl # <<>> /\ ctl[Len(ctl)] = "letD"
    THEN [ctl EXCEPT ![Len(ctl)] = "letB"] ELSE ctl

Pop(seq) == SubSeq(seq, 1, Len(seq) - 1)

\* analyze(): beginScope() before the visit
EscAnalyzeBegin ==
    /\ escPc = "init"
    /\ envStack_' = beginScope(envStack_)
    /\ escPc' = "visit"
    /\ UNCHANGED <<depth_, escapeBit, escCtl, refEnv, declDepth, usedDeeper>>
    /\ UNCHANGED <<symVars, semVars, irVars>>

\* analyze(): endScope() after the visit
EscAnalyzeEnd ==
    /\ escPc = "visit" /\ escCtl = <<>>
    /\ envStack_' = endScope(envStack_)
    /\ escPc' = "done"
    /\ UNCHANGED <<depth_, escapeBit, escCtl, refEnv, declDepth, usedDeeper>>
    /\ UNCHANGED <<symVars, semVars, irVars>>

\* visit(VarExpr*) / visit(AssignExpr*) / visit(IntExpr*) on one expression
EscVisitExpr ==
    /\ escPc = "visit"
    /\ \E e \in Exprs :
        /\ escapeBit' = checkAll(envStack_, depth_, escapeBit, Occurrences(e))
        /\ usedDeeper' = usedDeeper \cup DeeperRefs(refEnv, Occurrences(e))
    /\ escCtl' = AfterExpr(escCtl)
    /\ UNCHANGED <<envStack_, depth_, escPc, refEnv, declDepth>>
    /\ UNCHANGED <<symVars, semVars, irVars>>

\* visit(LetExpr*), up to the first declaration
EscLetEnter ==
    /\ escPc = "visit" /\ Len(escCtl) < MaxNest
    /\ envStack_' = beginScope(envStack_)
    /\ refEnv' = beginScope(refEnv)
    /\ escCtl' = Append(AfterExpr(escCtl), "letD")
    /\ UNCHANGED <<depth_, escapeBit, escPc, declDepth, usedDeeper>>
    /\ UNCHANGED <<symVars, semVars, irVars>>

\* visit(LetExpr*), after the last body expression
EscLetExit ==
    /\ escPc = "visit" /\ Top \in {"letD", "letB"}
    /\ envStack_' = endScope(envStack_)
    /\ refEnv' = endScope(refEnv)
    /\ escCtl' = Pop(escCtl)
    /\ UNCHANGED <<depth_, escapeBit, escPc, declDepth, usedDeeper>>
    /\ UNCHANGED <<symVars, semVars, irVars>>

\* visit(VarDecl*): the initializer is visited, then the variable is entered
EscVarDecl ==
    /\ escPc = "visit" /\ InDecls /\ Len(escapeBit) < MaxDecls
    /\ \E n \in Names, init \in Atoms :
        LET d == Len(escapeBit) + 1
            bits == checkAll(envStack_, depth_, escapeBit, Occurrences(init)) IN
        /\ escapeBit' = Append(bits, FALSE)
        /\ envStack_' = enterVar(envStack_, depth_, n, d)
        /\ usedDeeper' = usedDeeper \cup DeeperRefs(refEnv, Occurrences(init))
        /\ refEnv' = enter(refEnv, n, d)
        /\ declDepth' = Append(declDepth, FunDepth)
    /\ UNCHANGED <<depth_, escCtl, escPc>>
    /\ UNCHANGED <<symVars, semVars, irVars>>

\* visit(FunctionDecl*), up to the body: depth_++, beginScope, the parameters
EscFunEnter ==
    /\ escPc = "visit" /\ InDecls /\ Len(escCtl) < MaxNest
    /\ depth_' = depth_ + 1
    /\ \/ /\ envStack_' = beginScope(envStack_)
          /\ refEnv' = beginScope(refEnv)
          /\ UNCHANGED <<escapeBit, declDepth>>
       \/ /\ Len(escapeBit) < MaxDecls
          /\ \E n \in Names :
              LET d == Len(escapeBit) + 1 IN
              /\ envStack_' = enterVar(beginScope(envStack_), depth_ + 1, n, d)
              /\ refEnv' = enter(beginScope(refEnv), n, d)
              /\ escapeBit' = Append(escapeBit, FALSE)
              /\ declDepth' = Append(declDepth, FunDepth + 1)
    /\ escCtl' = Append(escCtl, "fun")
    /\ UNCHANGED <<escPc, usedDeeper>>
    /\ UNCHANGED <<symVars, semVars, irVars>>

\* visit(FunctionDecl*), after the body: endScope, depth_--
EscFunExit ==
    /\ escPc = "visit" /\ Top = "fun"
    /\ envStack_' = endScope(envStack_)
    /\ refEnv' = endScope(refEnv)
    /\ depth_' = depth_ - 1
    /\ escCtl' = Pop(escCtl)
    /\ UNCHANGED <<escapeBit, escPc, declDepth, usedDeeper>>
    /\ UNCHANGED <<symVars, semVars, irVars>>

\* visit(ForExpr*), up to the body: beginScope, enterVar(index), then lo and
\* hi.  The semantic analyzer types lo and hi before it opens the scope of
\* the index (semantic_analyzer.cpp, visit(ForExpr*)).
EscForEnter ==
    /\ escPc = "visit" /\ Len(escCtl) < MaxNest /\ Len(escapeBit) < MaxDecls
    /\ \E n \in Names, lo \in Atoms, hi \in Atoms :
        LET d == Len(escapeBit) + 1
            stack == enterVar(beginScope(envStack_), depth_, n, d)
            bits == Append(escapeBit, FALSE)
            occ == Occurrences(lo) \o Occurrences(hi) IN
        /\ envStack_' = stack
        /\ escapeBit' = checkAll(stack, depth_, bits, occ)
        /\ usedDeeper' = usedDeeper \cup DeeperRefs(refEnv, occ)
        /\ refEnv' = enter(beginScope(refEnv), n, d)
        /\ declDepth' = Append(declDepth, FunDepth)
    /\ escCtl' = Append(AfterExpr(escCtl), "for")
    /\ UNCHANGED <<depth_, escPc>>
    /\ UNCHANGED <<symVars, semVars, irVars>>

\* visit(ForExpr*), after the body
EscForExit ==
    /\ escPc = "visit" /\ Top = "for"
    /\ envStack_' = endScope(envStack_)
    /\ refEnv' = endScope(refEnv)
    /\ escCtl' = Pop(escCtl)
    /\ UNCHANGED <<depth_, escapeBit, escPc, declDepth, usedDeeper>>
    /\ UNCHANGED <<symVars, semVars, irVars>>

EscNext ==
    \/ EscAnalyzeBegin \/ EscAnalyzeEnd \/ EscVisitExpr
    \/ EscLetEnter \/ EscLetExit \/ EscVarDecl
    \/ EscFunEnter \/ EscFunExit \/ EscForEnter \/ EscForExit

\* C1: after escape analysis the escape bit of every variable declaration,
\* parameter and for index is true exactly when some occurrence that
\* resolves to the declaration lies in a function body nested deeper than
\* the declaration.
C1_EscapeIffDeeperUse ==
    escPc = "done" =>
        \A d \in 1..Len(escapeBit) : escapeBit[d] <=> (d \in usedDeeper)

\* ========================================================================
\* Semantic types (include/semantic/types.hpp, src/semantic/types.cpp)
\* ========================================================================
\* A Type* is the index of the object in heap; Null is nullptr.  The four
\* primitive singletons of TypeContext sit at the first four indices.
Null == 0
TInt == 1
TString == 2
TNil == 3
TVoid == 4
Hang == -1           \* NameType::actual() does not return (a cycle of aliases)

TypeObj(k, n, b, i, fs, e) ==
    [kind |-> k, name |-> n, binding |-> b, id |-> i, fields |-> fs, elem |-> e]
PrimObj(k) == TypeObj(k, "", Null, 0, <<>>, Null)
\* NameType(name): binding_(nullptr)
NameObj(n) == TypeObj("name", n, Null, 0, <<>>, Null)
\* RecordType(id)
RecordObj(i) == TypeObj("record", "", Null, i, <<>>, Null)
\* ArrayType(elemType, id)
ArrayObj(e, i) == TypeObj("array", "", Null, i, <<>>, e)
RecordField(n, t) == [name |-> n, type |-> t]

\* TypeContext(): the shared primitive instances
PrimHeap == <<PrimObj("int"), PrimObj("string"), PrimObj("nil"), PrimObj("void")>>

isName(h, t) == h[t].kind = "name"
isRecord(h, t) == h[t].kind = "record"
isArray(h, t) == h[t].kind = "array"
isNil(h, t) == h[t].kind = "nil"
isVoid(h, t) == h[t].kind = "void"

\* NameType::actual(), the loop: follow bindings while t is a bound alias
RECURSIVE chase(_, _, _)
chase(h, t, fuel) ==
    IF h[t].kind = "name" /\ h[t].binding # Null
    THEN IF fuel = 0 THEN Hang ELSE chase(h, h[t].binding, fuel - 1)
    ELSE t

\* Type::actual() / NameType::actual()
actual(h, t) ==
    IF h[t].kind # "name" THEN t
    ELSE IF h[t].binding = Null THEN t
    ELSE chase(h, h[t].binding, Len(h))

\* Type::equals (src/semantic/types.cpp): identity of the actual types
TypeEquals(h, a, b) == b # Null /\ actual(h, a) = actual(h, b)

\* RecordType::equals with the ids ignored: structurally equal records agree
RecordEqualsAnyId(h, a, b) ==
    IF h[b].kind = "nil" THEN TRUE
    ELSE h[b].kind = "record"

\* RecordType::equals
RecordEquals(h, a, b) ==
    IF h[b].kind = "nil" THEN TRUE
    ELSE IF h[b].kind # "record" THEN FALSE
    ELSE h[a].id = h[actual(h, b)].id

\* ArrayType::equals
ArrayEquals(h, a, b) ==
    IF h[b].kind # "array" THEN FALSE
    ELSE h[a].id = h[actual(h, b)].id

\* NameType::equals, once act = actual() and other = other->actual(): an
\* unresolved alias equals nothing
RECURSIVE equals(_, _, _)
NameEquals(h, a, act, other) ==
    IF act = a \/ act = Hang \/ other = Hang THEN FALSE
    ELSE equals(h, act, other)

\* the virtual call a->equals(b)
equals(h, a, b) ==
    CASE h[a].kind = "name" -> NameEquals(h, a, actual(h, a), actual(h, b))
      [] h[a].kind = "record" -> RecordEquals(h, a, b)
      [] h[a].kind = "array" -> ArrayEquals(h, a, b)
      [] OTHER -> TypeEquals(h, a, b)

\* the second branch of asRecord() / asArray(): isName() && actual() &&
\* actual()->isRecord() (isArray()), with act = actual()
castBehind(h, act, kind) ==
    IF act > Null /\ h[act].kind = kind THEN actual(h, act) ELSE Null

\* Type::asRecord()
asRecord(h, t) ==
    IF isRecord(h, t) THEN actual(h, t)
    ELSE IF isName(h, t) THEN castBehind(h, actual(h, t), "record")
    ELSE Null

\* Type::asArray()
asArray(h, t) ==
    IF isArray(h, t) THEN actual(h, t)
    ELSE IF isName(h, t) THEN castBehind(h, actual(h, t), "array")
    ELSE Null

\* Type::asName()
asName(h, t) == IF isName(h, t) THEN t ELSE Null

\* RecordType::getFieldType(name), searching the fields from position i
RECURSIVE getFieldTypeFrom(_, _, _)
getFieldTypeFrom(fs, i, name) ==
    IF i > Len(fs) THEN Null
    ELSE IF fs[i].name = name THEN fs[i].type
    ELSE getFieldTypeFrom(fs, i + 1, name)

getFieldType(h, r, name) == getFieldTypeFrom(h[r].fields, 1, name)

\* ========================================================================
\* Environment (include/semantic/environment.hpp)
\* ========================================================================
\* A value entry; decl is the kind of AST node that entered it ("var",
\* "param", "for", "function", "builtin").
VarEntry(t, ro, d) ==
    [kind |-> "var", type |-> t, readOnly |-> ro, params |-> <<>>, ret |-> Null, decl |-> d]
FuncEntry(ps, r, d) ==
    [kind |-> "func", type |-> Null, readOnly |-> FALSE, params |-> ps, ret |-> r, decl |-> d]
NullEntry ==
    [kind |-> "null", type |-> Null, readOnly |-> FALSE, params |-> <<>>, ret |-> Null, decl |-> ""]

lookupType(tenv, name) == lookupFrom(tenv, Len(tenv), name, Null)
lookupValue(venv, name) == lookupFrom(venv, Len(venv), name, NullEntry)

\* lookupVar(name): the entry when it is a variable, nullptr otherwise
lookupVar(venv, name) ==
    LET e == lookupValue(venv, name) IN IF e.kind = "var" THEN e ELSE NullEntry

\* lookupFunc(name): the entry when it is a function, nullptr otherwise
lookupFunc(venv, name) ==
    LET e == lookupValue(venv, name) IN IF e.kind = "func" THEN e ELSE NullEntry

\* initBuiltins(): the built-in types
BuiltinTypes == [n \in {"int", "string"} |-> IF n = "int" THEN TInt ELSE TString]

\* initBuiltins(): the built-in functions
BuiltinFuncs ==
    [n \in {"print", "printi", "flush", "getchar", "ord", "chr", "size",
            "substring", "concat", "not", "exit"} |->
        CASE n = "print"     -> FuncEntry(<<TString>>, TVoid, "builtin")
          [] n = "printi"    -> FuncEntry(<<TInt>>, TVoid, "builtin")
          [] n = "flush"     -> FuncEntry(<<>>, TVoid, "builtin")
          [] n = "getchar"   -> FuncEntry(<<>>, TString, "builtin")
          [] n = "ord"       -> FuncEntry(<<TString>>, TInt, "builtin")
          [] n = "chr"       -> FuncEntry(<<TInt>>, TString, "builtin")
          [] n = "size"      -> FuncEntry(<<TString>>, TInt, "builtin")
          [] n = "substring" -> FuncEntry(<<TString, TInt, TInt>>, TString, "builtin")
          [] n = "concat"    -> FuncEntry(<<TString, TString>>, TString, "builtin")
          [] n = "not"       -> FuncEntry(<<TInt>>, TInt, "builtin")
          [] n = "exit"      -> FuncEntry(<<TInt>>, TVoid, "builtin")]

\* ========================================================================
\* Semantic analyzer: type declarations
\* (src/semantic/semantic_analyzer.cpp, translateType and
\*  processTypeDeclarations)
\* ========================================================================
\* AST types: ast::NameType(n), ast::RecordType(fields), ast::ArrayType(n)
AstName(n) == [k |-> "name", n |-> n, fields |-> <<>>]
AstRecord(fs) == [k |-> "record", n |-> "", fields |-> fs]
AstArray(n) == [k |-> "array", n |-> n, fields |-> <<>>]
AstField(n, t) == [name |-> n, type_id |-> t]
\* ast::TypeDecl(name, type)
TypeDecl(n, ty) == [name |-> n, type |-> ty]

\* The analyzer state a type declaration works on; err is "" or the kind of
\* SemanticError thrown.
TState(h, tenv, rid, aid, err) ==
    [heap |-> h, tenv |-> tenv, rid |-> rid, aid |-> aid, err |-> err]

\* NameType::bind(type) that binds nothing
bindNothing(h, alias, t) == h

\* NameType::bind(type)
bind(h, alias, t) == [h EXCEPT ![alias].binding = t]

\* translateType, the loop over the fields of a record: every field type is
\* looked up and added; an unknown type throws
RECURSIVE addFields(_, _, _, _)
addFields(fs, i, rec, st) ==
    IF i > Len(fs) THEN st
    ELSE LET fieldType == lookupType(st.tenv, fs[i].type_id) IN
         IF fieldType = Null THEN [st EXCEPT !.err = "undefined"]
         ELSE addFields(fs, i + 1, rec,
                 [st EXCEPT !.heap[rec].fields = Append(@, RecordField(fs[i].name, fieldType))])

\* translateType on an ast::RecordType: createRecordType() takes the next id
translateRecord(ty, st) ==
    LET rec == Len(st.heap) + 1
        st1 == [st EXCEPT !.heap = Append(@, RecordObj(st.rid)), !.rid = @ + 1]
    IN [ref |-> rec, st |-> addFields(ty.fields, 1, rec, st1)]

\* translateType on an ast::ArrayType: the element type is looked up first
translateArray(ty, st) ==
    LET elementType == lookupType(st.tenv, ty.n) IN
    IF elementType = Null THEN [ref |-> Null, st |-> [st EXCEPT !.err = "undefined"]]
    ELSE [ref |-> Len(st.heap) + 1,
          st |-> [st EXCEPT !.heap = Append(@, ArrayObj(elementType, st.aid)),
                            !.aid = @ + 1]]

\* translateType(astType)
translateType(ty, st) ==
    CASE ty.k = "name" ->
            LET t == lookupType(st.tenv, ty.n) IN
            IF t = Null THEN [ref |-> Null, st |-> [st EXCEPT !.err = "undefined"]]
            ELSE [ref |-> t, st |-> st]
      [] ty.k = "record" -> translateRecord(ty, st)
      [] ty.k = "array" -> translateArray(ty, st)

\* Phase 1: a fresh NameType per declaration, entered in the type namespace
RECURSIVE typePhase1(_, _, _)
typePhase1(decls, i, st) ==
    IF i > Len(decls) THEN st
    ELSE typePhase1(decls, i + 1,
            [st EXCEPT !.heap = Append(@, NameObj(decls[i].name)),
                       !.tenv = enter(@, decls[i].name, Len(st.heap) + 1)])

\* Phase 2: translate each definition and bind it to the alias its name
\* resolves to
RECURSIVE typePhase2(_, _, _)
typePhase2(decls, i, st) ==
    IF i > Len(decls) \/ st.err # "" THEN st
    ELSE LET nameType == lookupType(st.tenv, decls[i].name) IN
         IF nameType # Null /\ isName(st.heap, nameType)
         THEN LET r == translateType(decls[i].type, st) IN
              IF r.st.err # "" THEN r.st
              ELSE typePhase2(decls, i + 1, [r.st EXCEPT !.heap = bind(@, nameType, r.ref)])
         ELSE typePhase2(decls, i + 1, st)

\* Phase 3, the while loop: TRUE when following the bindings from nameType
\* meets an alias whose name is in deps already
RECURSIVE aliasCycle(_, _, _)
aliasCycle(h, nameType, deps) ==
    LET actualType == h[nameType].binding IN
    IF actualType # Null /\ asName(h, actualType) # Null
    THEN LET depName == h[actualType].name IN
         IF depName \notin deps THEN aliasCycle(h, actualType, deps \cup {depName})
         ELSE TRUE
    ELSE FALSE

\* Phase 3 that checks the first declaration of the batch only
typePhase3FirstOnly(decls, i, checkedNames, st) ==
    IF Len(decls) >= 1 /\ i = 1
          /\ aliasCycle(st.heap, lookupType(st.tenv, decls[1].name), {decls[1].name})
    THEN [st EXCEPT !.err = "cycle"]
    ELSE st

\* Phase 3: the cycle check from every declared name not checked yet
RECURSIVE typePhase3(_, _, _, _)
typePhase3(decls, i, checkedNames, st) ==
    IF i > Len(decls) THEN st
    ELSE IF decls[i].name \in checkedNames THEN typePhase3(decls, i + 1, checkedNames, st)
    ELSE IF aliasCycle(st.heap, lookupType(st.tenv, decls[i].name), {decls[i].name})
         THEN [st EXCEPT !.err = "cycle"]
         ELSE typePhase3(decls, i + 1, checkedNames \cup {decls[i].name}, st)

\* processTypeDeclarations(typeDecls)
processTypeDeclarations(decls, st) ==
    LET st2 == typePhase2(decls, 1, typePhase1(decls, 1, st)) IN
    IF st2.err # "" THEN st2 ELSE typePhase3(decls, 1, {}, st2)

\* ========================================================================
\* Semantic analyzer: expressions (src/semantic/semantic_analyzer.cpp)
\* ========================================================================
\* The verdict on one expression: its type, or ok = FALSE when a
\* SemanticError is thrown; op, name, exp and act tell which check of which
\* construct decided last (exp: the expected type, act: the type found).
Res(ty, op, name, exp, act, ok) ==
    [ty |-> ty, op |-> op, name |-> name, exp |-> exp, act |-> act, ok |-> ok]
Fail(op, name, exp, act) == Res(Null, op, name, exp, act, FALSE)

\* checkTypeEquals: no error iff expected->equals(actual)
checkTypeEquals(h, expected, act) == equals(h, expected, act)

\* checkAssignable: no error iff varType->equals(exprType), or exprType is
\* nil and varType a record
checkAssignable(h, varType, exprType) ==
    \/ equals(h, varType, exprType)
    \/ (isNil(h, exprType) /\ isRecord(h, varType))

\* ast::Expr nodes
IntExpr == [k |-> "int"]
StringExpr == [k |-> "string"]
NilExpr == [k |-> "nil"]
UnitExpr == [k |-> "unit"]      \* SeqExpr with no expression: ()
SimpleVar(n) == [k |-> "simple", name |-> n]
FieldVar(b, f) == [k |-> "field", var |-> b, name |-> f]
SubscriptVar(b, ix) == [k |-> "subscript", var |-> b, index |-> ix]
OpExpr(o, l, r) == [k |-> "op", oper |-> o, left |-> l, right |-> r]
AssignExpr(v, e) == [k |-> "assign", var |-> v, expr |-> e]
CallExpr(f, args) == [k |-> "call", func |-> f, args |-> args]
RecordExpr(t, fs) == [k |-> "record", type_id |-> t, fields |-> fs]
IfExpr(c, t, f) == [k |-> "if", test |-> c, then_clause |-> t, else_clause |-> f]
NoExpr == [k |-> "none"]        \* else_clause == nullptr
ArrayExpr(t, sz, init) == [k |-> "array", type_id |-> t, size |-> sz, init |-> init]

\* visit(VarExpr*), simple variable, once varEntry = lookupVar(name)
resolvedVar(e, varEntry) ==
    IF varEntry.kind = "null" THEN Fail("name", e.name, Null, Null)
    ELSE Res(varEntry.type, "var", e.name, Null, Null, TRUE)

\* visit(VarExpr*), simple variable
visitSimple(venv, e) == resolvedVar(e, lookupVar(venv, e.name))

\* visit(IntExpr*), visit(StringExpr*), visit(NilExpr*), visit(SeqExpr*) on
\* the empty sequence, visit(VarExpr*) on a simple variable
visitAtom(venv, e) ==
    CASE e.k = "int"    -> Res(TInt, "int", "", Null, Null, TRUE)
      [] e.k = "string" -> Res(TString, "string", "", Null, Null, TRUE)
      [] e.k = "nil"    -> Res(TNil, "nil", "", Null, Null, TRUE)
      [] e.k = "unit"   -> Res(TVoid, "unit", "", Null, Null, TRUE)
      [] e.k = "simple" -> visitSimple(venv, e)

\* visit(VarExpr*), field access, once the base b is visited and
\* recordType = varType->asRecord(), fieldType = getFieldType(name)
fieldOf(e, b, recordType, fieldType) ==
    IF recordType = Null THEN Fail("field", e.name, Null, b.ty)
    ELSE IF fieldType = Null THEN Fail("field", e.name, Null, b.ty)
    ELSE Res(fieldType, "field", e.name, Null, b.ty, TRUE)

\* visit(VarExpr*), field access, once the base b is visited
visitFieldVar(h, e, b) ==
    IF ~b.ok THEN b
    ELSE LET inRecord(recordType) ==
                fieldOf(e, b, recordType,
                        IF recordType = Null THEN Null
                        ELSE getFieldType(h, recordType, e.name))
         IN inRecord(asRecord(h, b.ty))

\* visit(VarExpr*), subscript, once the base b and the index ix are visited
\* and arrayType = varType->asArray()
elementOf(h, e, b, ix, arrayType) ==
    IF ~ix.ok THEN ix
    ELSE IF ~checkTypeEquals(h, TInt, ix.ty) THEN Fail("index", e.var.name, TInt, ix.ty)
    ELSE IF arrayType = Null THEN Fail("subscript", e.var.name, Null, b.ty)
    ELSE Res(h[arrayType].elem, "subscript", e.var.name, TInt, ix.ty, TRUE)

\* visit(VarExpr*), subscript, once the base b is visited: varType->isArray()
\* is asked of the type the variable was entered with
visitSubscriptVar(h, venv, e, b) ==
    IF ~b.ok THEN b
    ELSE IF ~isArray(h, b.ty) THEN Fail("subscript", e.var.name, Null, b.ty)
    ELSE elementOf(h, e, b, visitAtom(venv, e.index), asArray(h, b.ty))

\* visit(VarExpr*): simple, field and subscript
visitVar(h, venv, e) ==
    CASE e.k = "simple" -> visitSimple(venv, e)
      [] e.k = "field" -> visitFieldVar(h, e, visitSimple(venv, e.var))
      [] e.k = "subscript" -> visitSubscriptVar(h, venv, e, visitSimple(venv, e.var))

\* visit(RecordExpr*), one field, once its initializer v is visited
fieldInit(h, fields, recordFields, i, v) ==
    IF ~v.ok THEN v
    ELSE IF ~checkTypeEquals(h, recordFields[i].type, v.ty)
         THEN Fail("fieldinit", fields[i].name, recordFields[i].type, v.ty)
    ELSE Res(Null, "fieldinit", fields[i].name, recordFields[i].type, v.ty, TRUE)

\* visit(RecordExpr*), the loop over the fields from position i
RECURSIVE checkFields(_, _, _, _, _)
checkFields(h, venv, fields, recordFields, i) ==
    IF i > Len(fields) THEN Res(Null, "record", "", Null, Null, TRUE)
    ELSE IF fields[i].name # recordFields[i].name
         THEN Fail("fieldname", fields[i].name, Null, Null)
    ELSE LET rest(r) ==
                IF ~r.ok \/ i = Len(fields) THEN r
                ELSE checkFields(h, venv, fields, recordFields, i + 1)
         IN rest(fieldInit(h, fields, recordFields, i, visitAtom(venv, fields[i].value)))

\* the type of a well-typed expression is ty
typed(r, ty) == IF ~r.ok THEN r ELSE [r EXCEPT !.ty = ty]

\* visit(RecordExpr*), once type = lookupType(type_id) and
\* recordType = type->asRecord()
recordOf(h, venv, e, type, recordType) ==
    IF recordType = Null THEN Fail("notrecord", e.type_id, Null, type)
    ELSE IF Len(e.fields) # Len(h[recordType].fields)
         THEN Fail("fieldcount", e.type_id, Null, type)
    ELSE typed(checkFields(h, venv, e.fields, h[recordType].fields, 1), type)

\* visit(RecordExpr*)
visitRecord(h, tenv, venv, e) ==
    LET named(type) ==
           IF type = Null THEN Fail("name", e.type_id, Null, Null)
           ELSE recordOf(h, venv, e, type, asRecord(h, type))
    IN named(lookupType(tenv, e.type_id))

\* visit(ArrayExpr*), once the size sz and the initializer init are visited
arrayOf(h, e, type, elemType, sz, init) ==
    IF ~sz.ok THEN sz
    ELSE IF ~checkTypeEquals(h, TInt, sz.ty) THEN Fail("size", e.type_id, TInt, sz.ty)
    ELSE IF ~init.ok THEN init
    ELSE IF ~checkAssignable(h, elemType, init.ty)
         THEN Fail("arrayinit", e.type_id, elemType, init.ty)
    ELSE Res(type, "arrayinit", e.type_id, elemType, init.ty, TRUE)

\* visit(ArrayExpr*)
visitArray(h, tenv, venv, e) ==
    LET ofArray(type, arrayType) ==
           IF arrayType = Null THEN Fail("notarray", e.type_id, Null, type)
           ELSE arrayOf(h, e, type, h[arrayType].elem,
                        visitAtom(venv, e.size), visitAtom(venv, e.init))
        named(type) ==
           IF type = Null THEN Fail("name", e.type_id, Null, Null)
           ELSE ofArray(type, asArray(h, type))
    IN named(lookupType(tenv, e.type_id))

\* the visit of an operand: a leaf or a creation
visitValue(h, tenv, venv, e) ==
    CASE e.k = "record" -> visitRecord(h, tenv, venv, e)
      [] e.k = "array" -> visitArray(h, tenv, venv, e)
      [] OTHER -> visitAtom(venv, e)

\* visit(OpExpr*), once the operands l and r are visited: arithmetic and
\* logical operators take integers, comparisons checkTypeEquals(leftType,
\* rightType)
opOf(h, e, l, r) ==
    IF ~l.ok THEN l
    ELSE IF ~r.ok THEN r
    ELSE IF e.oper \in {"PLUS", "MINUS", "TIMES", "DIVIDE", "AND", "OR"}
         THEN IF ~checkTypeEquals(h, TInt, l.ty) THEN Fail("operand", "", TInt, l.ty)
              ELSE IF ~checkTypeEquals(h, TInt, r.ty) THEN Fail("operand", "", TInt, r.ty)
              ELSE Res(TInt, "operand", "", TInt, r.ty, TRUE)
    ELSE IF ~checkTypeEquals(h, l.ty, r.ty) THEN Fail("cmp", "", l.ty, r.ty)
    ELSE Res(TInt, "cmp", "", l.ty, r.ty, TRUE)

\* visit(OpExpr*)
visitOp(h, tenv, venv, e) ==
    opOf(h, e, visitValue(h, tenv, venv, e.left), visitValue(h, tenv, venv, e.right))

\* visit(AssignExpr*) that never looks at isReadOnly()
assignOfNoReadOnly(h, e, target, readOnly, v, x) ==
    IF ~v.ok THEN v
    ELSE IF ~x.ok THEN x
    ELSE IF ~checkAssignable(h, v.ty, x.ty) THEN Fail("assign", target, v.ty, x.ty)
    ELSE Res(TVoid, "assign", target, v.ty, x.ty, TRUE)

\* visit(AssignExpr*), once the target v and the value x are visited;
\* readOnly: the target is a simple variable whose entry isReadOnly()
assignOf(h, e, target, readOnly, v, x) ==
    IF ~v.ok THEN v
    ELSE IF ~x.ok THEN x
    ELSE IF readOnly THEN Fail("readonly", target, v.ty, x.ty)
    ELSE IF ~checkAssignable(h, v.ty, x.ty) THEN Fail("assign", target, v.ty, x.ty)
    ELSE Res(TVoid, "assign", target, v.ty, x.ty, TRUE)

\* the entry of the target of the assignment is a read-only variable
isReadOnly(e, varEntry) ==
    e.var.k = "simple" /\ varEntry.kind = "var" /\ varEntry.readOnly

\* visit(AssignExpr*)
visitAssign(h, tenv, venv, e) ==
    assignOf(h, e, IF e.var.k = "simple" THEN e.var.name ELSE "",
             isReadOnly(e, IF e.var.k = "simple" THEN lookupVar(venv, e.var.name)
                           ELSE NullEntry),
             visitVar(h, venv, e.var), visitValue(h, tenv, venv, e.expr))

\* visit(CallExpr*), one argument, once it is visited
argOf(h, f, paramType, a) ==
    IF ~a.ok THEN a
    ELSE IF ~checkTypeEquals(h, paramType, a.ty) THEN Fail("arg", f, paramType, a.ty)
    ELSE Res(Null, "arg", f, paramType, a.ty, TRUE)

\* visit(CallExpr*), the loop over the arguments from position i
RECURSIVE checkArgs(_, _, _, _, _, _, _)
checkArgs(h, tenv, venv, f, args, paramTypes, i) ==
    IF i > Len(args) THEN Res(Null, "call", f, Null, Null, TRUE)
    ELSE LET rest(r) ==
                IF ~r.ok \/ i = Len(args) THEN r
                ELSE checkArgs(h, tenv, venv, f, args, paramTypes, i + 1)
         IN rest(argOf(h, f, paramTypes[i], visitValue(h, tenv, venv, args[i])))

\* visit(CallExpr*), once funcEntry = lookupFunc(func)
callOf(h, tenv, venv, e, funcEntry) ==
    IF funcEntry.kind = "null" THEN Fail("name", e.func, Null, Null)
    ELSE IF Len(e.args) # Len(funcEntry.params) THEN Fail("arity", e.func, Null, Null)
    ELSE typed(checkArgs(h, tenv, venv, e.func, e.args, funcEntry.params, 1),
               funcEntry.ret)

\* visit(CallExpr*)
visitCall(h, tenv, venv, e) == callOf(h, tenv, venv, e, lookupFunc(venv, e.func))

\* visit(IfExpr*), once the test, the then clause and the else clause (when
\* there is one) are visited; the event names the kind of the test type
ifOf(h, e, test, then, else) ==
    IF ~test.ok THEN test
    ELSE IF ~checkTypeEquals(h, TInt, test.ty)
         THEN Fail("iftest", h[actual(h, test.ty)].kind, TInt, test.ty)
    ELSE IF ~then.ok THEN then
    ELSE IF e.else_clause.k # "none"
         THEN IF ~else.ok THEN else
              ELSE IF ~checkTypeEquals(h, then.ty, else.ty)
                   THEN Fail("ifelse", h[actual(h, test.ty)].kind, then.ty, else.ty)
              ELSE Res(then.ty, "ifelse", h[actual(h, test.ty)].kind, then.ty, else.ty, TRUE)
    ELSE IF ~checkTypeEquals(h, TVoid, then.ty)
         THEN Fail("ifthen", h[actual(h, test.ty)].kind, TVoid, then.ty)
    ELSE Res(TVoid, "ifthen", h[actual(h, test.ty)].kind, TVoid, then.ty, TRUE)

\* visit(IfExpr*)
visitIf(h, venv, e) ==
    ifOf(h, e, visitAtom(venv, e.test), visitAtom(venv, e.then_clause),
         visitAtom(venv, e.else_clause))

\* expr->accept(*this)
visit(h, tenv, venv, e) ==
    CASE e.k \in {"int", "string", "nil", "unit"} -> visitAtom(venv, e)
      [] e.k \in {"simple", "field", "subscript"} -> visitVar(h, venv, e)
      [] e.k = "op" -> visitOp(h, tenv, venv, e)
      [] e.k = "assign" -> visitAssign(h, tenv, venv, e)
      [] e.k = "call" -> visitCall(h, tenv, venv, e)
      [] e.k = "if" -> visitIf(h, venv, e)
      [] e.k = "record" -> visitRecord(h, tenv, venv, e)
      [] e.k = "array" -> visitArray(h, tenv, venv, e)

\* ========================================================================
\* Semantic analyzer: the traversal
\* (src/semantic/semantic_analyzer.cpp, visit(LetExpr*), visit(ForExpr*),
\*  visit(WhileExpr*), processFunctionDeclarations, visit(VarDecl*))
\* ========================================================================
\* The program is met node by node, in the order the visitor meets it; semCtl
\* is the stack of the visit() calls that are open.
MaxHeap == 8         \* type objects created in one run
MaxLetDecls == 3     \* declarations of one let
MaxGroup == 2        \* type (function) declarations collected into one group
MaxSemDecls == 3     \* declarations of the whole program
MaxSemNest == 4      \* open visits: the program, let / for / while / function bodies
MaxLets == 2         \* open lets
MaxBody == 1         \* expressions in the body of a let

TNames == {"a", "b"}
TypeIds == {"int"} \cup TNames
FNames == {"f", "g"}
FieldName == "f"

\* ast::FunctionDecl(name, params, result_type, body); the body comes later
Param(n, t) == [name |-> n, type_id |-> t]
FunctionDecl(n, ps, r) == [name |-> n, params |-> ps, result_type |-> r]
Field(n, v) == [name |-> n, value |-> v]

\* The programs are written in one of three parts of the language, each
\* with its own small supply of declarations and expressions:
\*   "types"      lets with type and variable declarations and one procedure,
\*                and expressions over records and arrays;
\*   "functions"  lets with type, function and variable declarations, and
\*                calls;
\*   "loops"      for and while loops, lets with variable and function
\*                declarations, and assignments.
Fragments == {"types", "functions", "loops", "links", "run", "breaks", "conds", "branches"}

TypeForms ==
    {AstName(n) : n \in TypeIds}
        \cup {AstRecord(<<AstField(FieldName, n)>>) : n \in TypeIds}
        \cup {AstArray(n) : n \in {"int", "a"}}
TypeDecls(fr) ==
    CASE fr = "types" -> {TypeDecl(n, ty) : n \in TNames, ty \in TypeForms}
      [] fr = "functions" ->
            {TypeDecl("a", AstName("b")), TypeDecl("b", AstName("int")),
             TypeDecl("a", AstRecord(<<AstField(FieldName, "int")>>)),
             TypeDecl("b", AstRecord(<<AstField(FieldName, "int")>>))}
      [] fr = "loops" -> {}

FunDecls(fr) ==
    CASE fr = "types" -> {FunctionDecl("f", <<Param("x", "a")>>, "")}
      [] fr = "functions" ->
            {FunctionDecl(n, sig[1], sig[2]) :
                n \in FNames,
                sig \in {<< <<>>, "" >>, << <<Param("x", "a")>>, "" >>, << <<>>, "int" >>}}
      [] fr = "loops" ->
            {FunctionDecl("f", <<>>, ""), FunctionDecl("f", <<Param("x", "int")>>, "")}

SemAtoms == {IntExpr, NilExpr} \cup {SimpleVar(n) : n \in Names}
SemLValues ==
    {SimpleVar(n) : n \in Names}
        \cup {FieldVar(SimpleVar(n), FieldName) : n \in Names}
        \cup {SubscriptVar(SimpleVar(n), IntExpr) : n \in Names}
Creations(inits) ==
    {RecordExpr(t, <<Field(FieldName, v)>>) : t \in TNames, v \in inits}
        \cup {ArrayExpr(t, IntExpr, v) : t \in TNames, v \in inits}
Operands == SemAtoms \cup Creations({IntExpr})

\* the clauses of an if
Clauses == {IntExpr, NilExpr, UnitExpr, SimpleVar("x")}

SemExprs(fr) ==
    CASE fr = "types" ->
            SemAtoms \cup SemLValues \cup Creations({IntExpr, NilExpr})
                \cup {OpExpr(o, l, r) : o \in {"EQ", "NEQ"}, l \in Operands, r \in Operands}
                \cup {AssignExpr(v, e) : v \in SemLValues, e \in Operands}
                \cup {CallExpr("f", <<v>>) : v \in Operands}
      [] fr = "functions" ->
            SemAtoms
                \cup {CallExpr(f, args) :
                        f \in FNames, args \in {<<>>} \cup {<<v>> : v \in Operands}}
                \cup {AssignExpr(SimpleVar("x"), e) : e \in SemAtoms}
                \cup {IfExpr(c, t, f) : c \in {IntExpr, NilExpr}, t \in Clauses,
                                        f \in Clauses \cup {NoExpr}}
      [] fr = "loops" ->
            SemAtoms \cup {CallExpr("f", <<>>)}
                \cup {AssignExpr(SimpleVar(n), e) : n \in Names, e \in SemAtoms}

\* the variable declarations: names, declared types ("" for none), initializers
VarNames(fr) == IF fr = "loops" THEN Names ELSE {"x"}
VarTypeIds(fr) ==
    CASE fr = "types" -> {""} \cup TypeIds
      [] fr = "functions" -> {"", "a"}
      [] fr = "loops" -> {""}
InitExprs(fr) ==
    CASE fr = "types" -> SemAtoms \cup Creations({IntExpr, NilExpr})
      [] fr = "functions" -> {IntExpr, NilExpr, RecordExpr("a", <<Field(FieldName, IntExpr)>>)}
      [] fr = "loops" -> {IntExpr} \cup {SimpleVar(n) : n \in Names}
BoundExprs == {IntExpr, NilExpr} \cup {SimpleVar(n) : n \in Names}

\* The kinds of the declarations visit(LetExpr*) collects in one round of its
\* inner while: type and function declarations in any order, up to the next
\* variable declaration or the end of the list.
Count(pat, kind) == Cardinality({j \in 1..Len(pat) : pat[j] = kind})
Rounds(fr) ==
    {pat \in UNION {[1..n -> {"type", "fun"}] : n \in 1..MaxLetDecls} :
        /\ Count(pat, "type") <= MaxGroup /\ Count(pat, "fun") <= MaxGroup
        /\ fr = "types" => Count(pat, "fun") <= 1
        /\ fr = "loops" => Count(pat, "type") = 0}

\* the positions from..(from + Len(pat) - 1) of the let that hold a
\* declaration of the kind, in order
RECURSIVE collect(_, _, _, _)
collect(pat, j, from, kind) ==
    IF j > Len(pat) THEN <<>>
    ELSE (IF pat[j] = kind THEN <<from + j - 1>> ELSE <<>>) \o collect(pat, j + 1, from, kind)

\* One open visit(): k is "root", "let", "fun" (a function body), "for" or
\* "while".  A let has consumed n declarations; stage is "decls" while any
\* declaration may come next, "closed" after a round (a variable declaration
\* or the body comes next) and "body" in the body; pend holds the positions
\* of the functions collected but not processed.  done counts the expressions
\* visited in the body and last is lastType / bodyType.  A function body
\* belongs to group[gi] and keeps saved = savedReturnType.
Frame(k, n, stage, pend, done, last, group, gi, saved) ==
    [k |-> k, n |-> n, stage |-> stage, pend |-> pend, done |-> done, last |-> last,
     group |-> group, gi |-> gi, saved |-> saved]
BodyFrame(k) == Frame(k, 0, "body", <<>>, 0, TVoid, <<>>, 0, Null)
LetFrame == Frame("let", 0, "decls", <<>>, 0, TVoid, <<>>, 0, Null)
FunFrame(group, gi, saved) == Frame("fun", 0, "body", <<>>, 0, TVoid, group, gi, saved)

\* What the last step decided: the verdict of its last check, the
\* declarations it worked on (decls, at the positions pos of their let) and
\* the type names visible before it (pre).
Event(r, decls, pos, pre) ==
    [op |-> r.op, name |-> r.name, exp |-> r.exp, act |-> r.act, ok |-> r.ok,
     decls |-> decls, pos |-> pos, pre |-> pre]
Plain(r) == Event(r, <<>>, <<>>, {})
Step(op) == Plain(Res(Null, op, "", Null, Null, TRUE))

\* SemanticAnalyzer(typeCtx): Environment() opens the global scope and
\* enters the built-ins
SemStart ==
    /\ heap = PrimHeap
    /\ typeEnv_ = <<BuiltinTypes>>
    /\ valueEnv_ = <<BuiltinFuncs>>
    /\ nextRecordId_ = 0
    /\ nextArrayId_ = 0
    /\ loopDepth_ = 0
    /\ currentReturnType_ = Null
    /\ semCtl = <<BodyFrame("root")>>
    /\ semStatus = "run"
    /\ semDecls = 0
    /\ semLast = Step("start")
    /\ fragment \in Fragments

SemTop == semCtl[Len(semCtl)]
\* the expressions in the body of a let: one more in the "loops" part, where
\* an expression may follow a loop
BodyLen(fr) == IF fr = "loops" THEN MaxBody + 1 ELSE MaxBody
\* the visitor is where the next expression of a body is visited: the body
\* of a let is a list, every other body one expression
ExprPos ==
    /\ semStatus = "run"
    /\ SemTop.pend = <<>>
    /\ SemTop.done < (IF SemTop.k = "let" THEN BodyLen(fragment) ELSE 1)
SetTop(ctl, f) == [ctl EXCEPT ![Len(ctl)] = f]
\* the visit of an expression of the body of the top frame begins; lastType
\* is assigned when it returns
Descend(ctl) ==
    [ctl EXCEPT ![Len(ctl)].stage = "body", ![Len(ctl)].done = @ + 1,
                ![Len(ctl)].last = Null]
\* the visit on top returns t to the frame below
Return(ctl, t) == [Pop(ctl) EXCEPT ![Len(ctl) - 1].last = t]
\* the SemanticError leaves analyze(): nothing is undone
Throw(ev) ==
    /\ semStatus' = "error"
    /\ semLast' = ev
    /\ UNCHANGED <<heap, typeEnv_, valueEnv_, nextRecordId_, nextArrayId_,
                   loopDepth_, currentReturnType_, semCtl, semDecls>>

\* visit(LetExpr*), entry: beginScope(), then the declarations
SemLetEnter ==
    /\ ExprPos
    /\ Len(semCtl) < MaxSemNest
    /\ Cardinality({i \in 1..Len(semCtl) : semCtl[i].k = "let"}) < MaxLets
    /\ semCtl' = Append(Descend(semCtl), LetFrame)
    /\ typeEnv_' = beginScope(typeEnv_)
    /\ valueEnv_' = beginScope(valueEnv_)
    /\ semLast' = Step("let")
    /\ UNCHANGED <<heap, nextRecordId_, nextArrayId_, loopDepth_, currentReturnType_,
                   semStatus, semDecls>>
    /\ UNCHANGED <<symVars, escVars, irVars, fragment>>

\* the type names lookupType finds
VisibleTypes(tenv) == {n \in TypeIds \cup {"string"} : lookupType(tenv, n) # Null}

\* visit(LetExpr*): one round that collects at least one type declaration;
\* the typeGroup is handed to processTypeDeclarations
SemTypeGroup ==
    /\ semStatus = "run"
    /\ SemTop.k = "let" /\ SemTop.stage = "decls" /\ SemTop.pend = <<>>
    /\ \E pat \in Rounds(fragment) :
          LET tpos == collect(pat, 1, SemTop.n + 1, "type")
              fpos == collect(pat, 1, SemTop.n + 1, "fun")
          IN /\ tpos # <<>>
             /\ SemTop.n + Len(pat) <= MaxLetDecls
             /\ semDecls + Len(pat) <= MaxSemDecls
             /\ Len(heap) + 2 * Len(tpos) <= MaxHeap
             /\ semDecls' = semDecls + Len(pat)
             /\ \E decls \in [1..Len(tpos) -> TypeDecls(fragment)] :
                \E st \in {processTypeDeclarations(decls,
                               TState(heap, typeEnv_, nextRecordId_, nextArrayId_, ""))} :
                      /\ heap' = st.heap
                      /\ typeEnv_' = st.tenv
                      /\ nextRecordId_' = st.rid
                      /\ nextArrayId_' = st.aid
                      /\ semLast' = Event(Res(Null, "typegroup", st.err, Null, Null,
                                              st.err = ""),
                                          decls, tpos, VisibleTypes(typeEnv_))
                      /\ semStatus' = IF st.err = "" THEN "run" ELSE "error"
                      /\ semCtl' = IF st.err # "" THEN semCtl
                                   ELSE SetTop(semCtl, [SemTop EXCEPT !.n = @ + Len(pat),
                                                                      !.stage = "closed",
                                                                      !.pend = fpos])
    /\ UNCHANGED <<valueEnv_, loopDepth_, currentReturnType_>>
    /\ UNCHANGED <<symVars, escVars, irVars, fragment>>

\* processFunctionDeclarations, phase 1: the headers from position i; err is
\* TRUE when a parameter type or the result type is undefined
RECURSIVE funPhase1(_, _, _, _)
funPhase1(decls, i, tenv, venv) ==
    IF i > Len(decls) THEN [venv |-> venv, err |-> FALSE]
    ELSE LET d == decls[i]
             paramTypes == [j \in 1..Len(d.params) |-> lookupType(tenv, d.params[j].type_id)]
             returnType == IF d.result_type = "" THEN TVoid ELSE lookupType(tenv, d.result_type)
         IN IF (\E j \in 1..Len(d.params) : paramTypes[j] = Null) \/ returnType = Null
            THEN [venv |-> venv, err |-> TRUE]
            ELSE funPhase1(decls, i + 1, tenv,
                           enter(venv, d.name, FuncEntry(paramTypes, returnType, "function")))

\* processFunctionDeclarations, phase 2 up to the body: the parameter types
\* the body of decl may see.  paramTypes[i] is read for every parameter of
\* decl; past the end of the entry's vector the read is undefined, and any
\* type may come back.
ParamTypeChoices(h, venv, decl) ==
    LET entry == lookupFunc(venv, decl.name) IN
    {pts \in [1..Len(decl.params) -> 1..Len(h)] :
        \A i \in 1..Len(decl.params) : i <= Len(entry.params) => pts[i] = entry.params[i]}

\* what may follow the read of paramTypes: the analysis goes on, or, when
\* the read was past the end, the process may die
ReadOutcomes(venv, decl) ==
    IF Len(decl.params) > Len(lookupFunc(venv, decl.name).params)
    THEN {"run", "crash"} ELSE {"run"}

\* enterVar for each parameter, from position i
RECURSIVE enterParams(_, _, _, _)
enterParams(venv, params, pts, i) ==
    IF i > Len(params) THEN venv
    ELSE enterParams(enter(venv, params[i].name, VarEntry(pts[i], FALSE, "param")),
                     params, pts, i + 1)

\* visit(LetExpr*) / processFunctionDeclarations up to the first body: the
\* functionGroup of the round (a round of functions only, or the functions
\* collected along with a typeGroup) has its headers entered, and the scope
\* of the first body is opened
SemFunHeaders ==
    /\ semStatus = "run"
    /\ SemTop.k = "let"
    /\ Len(semCtl) < MaxSemNest
    /\ \E pat \in Rounds(fragment) :
          LET fresh == SemTop.pend = <<>>
              fpos == IF fresh THEN collect(pat, 1, SemTop.n + 1, "fun") ELSE SemTop.pend
          IN /\ Len(pat) = Len(fpos)
             /\ Count(pat, "type") = 0
             /\ fresh => /\ SemTop.stage = "decls"
                         /\ SemTop.n + Len(pat) <= MaxLetDecls
                         /\ semDecls + Len(pat) <= MaxSemDecls
             /\ semDecls' = IF fresh THEN semDecls + Len(pat) ELSE semDecls
             /\ \E decls \in [1..Len(fpos) -> FunDecls(fragment)] :
                \E p1 \in {funPhase1(decls, 1, typeEnv_, valueEnv_)} :
                \E ev \in {Event(Res(Null, "fungroup", "", Null, Null, ~p1.err),
                                 decls, fpos, VisibleTypes(typeEnv_))} :
                   LET let == [SemTop EXCEPT !.n = IF fresh THEN @ + Len(pat) ELSE @,
                                             !.stage = "closed", !.pend = <<>>]
                   IN IF p1.err
                      THEN /\ valueEnv_' = p1.venv
                           /\ semStatus' = "error"
                           /\ semLast' = ev
                           /\ UNCHANGED <<typeEnv_, currentReturnType_, semCtl>>
                      ELSE \E pts \in ParamTypeChoices(heap, p1.venv, decls[1]) :
                           /\ typeEnv_' = beginScope(typeEnv_)
                           /\ valueEnv_' = enterParams(beginScope(p1.venv), decls[1].params, pts, 1)
                           /\ currentReturnType_' = lookupFunc(p1.venv, decls[1].name).ret
                           /\ semCtl' = Append(SetTop(semCtl, let),
                                               FunFrame(decls, 1, currentReturnType_))
                           /\ semStatus' \in ReadOutcomes(p1.venv, decls[1])
                           /\ semLast' = ev
    /\ UNCHANGED <<heap, nextRecordId_, nextArrayId_, loopDepth_>>
    /\ UNCHANGED <<symVars, escVars, irVars, fragment>>

\* processFunctionDeclarations, phase 2 after a body: the result check, the
\* scope of the body closed, and the scope of the next body opened
SemFunBodyEnd ==
    /\ semStatus = "run"
    /\ SemTop.k = "fun"
    /\ \E good \in {isVoid(heap, currentReturnType_)
                        \/ checkTypeEquals(heap, currentReturnType_, SemTop.last)} :
       \E ev \in {Event(Res(Null, "funbody", SemTop.group[SemTop.gi].name,
                            currentReturnType_, SemTop.last, good),
                        SemTop.group, <<SemTop.gi>>, {})} :
          IF ~good THEN Throw(ev)
          ELSE /\ semLast' = ev
               /\ IF SemTop.gi = Len(SemTop.group)
                  THEN /\ semCtl' = Pop(semCtl)
                       /\ semStatus' = "run"
                       /\ currentReturnType_' = SemTop.saved
                       /\ typeEnv_' = endScope(typeEnv_)
                       /\ valueEnv_' = endScope(valueEnv_)
                  ELSE \E next \in {SemTop.group[SemTop.gi + 1]},
                          venv \in {endScope(valueEnv_)} :
                          \E pts \in ParamTypeChoices(heap, venv, next) :
                          /\ semCtl' = SetTop(semCtl, FunFrame(SemTop.group, SemTop.gi + 1,
                                                               SemTop.saved))
                          /\ semStatus' \in ReadOutcomes(venv, next)
                          /\ currentReturnType_' = lookupFunc(venv, next.name).ret
                          /\ typeEnv_' = beginScope(endScope(typeEnv_))
                          /\ valueEnv_' = enterParams(beginScope(venv), next.params, pts, 1)
               /\ UNCHANGED <<heap, nextRecordId_, nextArrayId_, loopDepth_, semDecls>>
    /\ UNCHANGED <<symVars, escVars, irVars, fragment>>

\* visit(VarDecl*)
SemVarDecl ==
    /\ semStatus = "run"
    /\ SemTop.k = "let" /\ SemTop.stage \in {"decls", "closed"} /\ SemTop.pend = <<>>
    /\ SemTop.n < MaxLetDecls
    /\ semDecls < MaxSemDecls
    /\ \E name \in VarNames(fragment), type_id \in VarTypeIds(fragment),
          init \in InitExprs(fragment) :
          \E r \in {visit(heap, typeEnv_, valueEnv_, init)},
             declared \in {IF type_id = "" THEN Null ELSE lookupType(typeEnv_, type_id)} :
          LET varType == IF type_id = "" THEN r.ty ELSE declared
          IN IF ~r.ok THEN Throw(Plain(r))
             ELSE IF type_id # "" /\ declared = Null
                  THEN Throw(Plain(Fail("name", type_id, Null, Null)))
             ELSE IF type_id # "" /\ ~checkAssignable(heap, declared, r.ty)
                  THEN Throw(Plain(Fail("init", name, declared, r.ty)))
             ELSE /\ valueEnv_' = enter(valueEnv_, name, VarEntry(varType, FALSE, "var"))
                  /\ semCtl' = SetTop(semCtl, [SemTop EXCEPT !.n = @ + 1, !.stage = "decls"])
                  /\ semDecls' = semDecls + 1
                  /\ semLast' = Plain(Res(varType, "init", name, declared, r.ty, TRUE))
                  /\ UNCHANGED <<heap, typeEnv_, nextRecordId_, nextArrayId_, loopDepth_,
                                 currentReturnType_, semStatus>>
    /\ UNCHANGED <<symVars, escVars, irVars, fragment>>

\* Environment::enterLoop(), exitLoop(), inLoop() on loopDepth_
enterLoop(depth) == depth + 1
\* exitLoop() that leaves the depth as it is
exitLoopKeeps(depth) == depth
exitLoop(depth) == depth - 1
inLoop(depth) == depth > 0

\* visit(ForExpr*) up to the body
SemForEnter ==
    /\ ExprPos
    /\ Len(semCtl) < MaxSemNest
    /\ \E var \in Names, lo \in BoundExprs, hi \in BoundExprs :
          \E loType \in {visitAtom(valueEnv_, lo)}, hiType \in {visitAtom(valueEnv_, hi)} :
             IF ~loType.ok THEN Throw(Plain(loType))
             ELSE IF ~hiType.ok THEN Throw(Plain(hiType))
             ELSE IF ~checkTypeEquals(heap, TInt, loType.ty)
                  THEN Throw(Plain(Fail("forbound", var, TInt, loType.ty)))
             ELSE IF ~checkTypeEquals(heap, TInt, hiType.ty)
                  THEN Throw(Plain(Fail("forbound", var, TInt, hiType.ty)))
             ELSE /\ typeEnv_' = beginScope(typeEnv_)
                  /\ valueEnv_' = enter(beginScope(valueEnv_), var, VarEntry(TInt, TRUE, "for"))
                  /\ loopDepth_' = enterLoop(loopDepth_)
                  /\ semCtl' = Append(Descend(semCtl), BodyFrame("for"))
                  /\ semLast' = Plain(Res(Null, "for", var, TInt, hiType.ty, TRUE))
                  /\ UNCHANGED <<heap, nextRecordId_, nextArrayId_, currentReturnType_,
                                 semStatus, semDecls>>
    /\ UNCHANGED <<symVars, escVars, irVars, fragment>>

\* visit(ForExpr*) after the body
SemForExit ==
    /\ semStatus = "run"
    /\ SemTop.k = "for"
    /\ loopDepth_' = exitLoop(loopDepth_)
    /\ typeEnv_' = endScope(typeEnv_)
    /\ valueEnv_' = endScope(valueEnv_)
    /\ semCtl' = Return(semCtl, TVoid)
    /\ semLast' = Step("endfor")
    /\ UNCHANGED <<heap, nextRecordId_, nextArrayId_, currentReturnType_, semStatus, semDecls>>
    /\ UNCHANGED <<symVars, escVars, irVars, fragment>>

\* visit(WhileExpr*) up to the body
SemWhileEnter ==
    /\ ExprPos
    /\ Len(semCtl) < MaxSemNest
    /\ \E test \in BoundExprs :
          \E testType \in {visitAtom(valueEnv_, test)} :
          IF ~testType.ok THEN Throw(Plain(testType))
          ELSE IF ~checkTypeEquals(heap, TInt, testType.ty)
               THEN Throw(Plain(Fail("test", "", TInt, testType.ty)))
          ELSE /\ loopDepth_' = enterLoop(loopDepth_)
               /\ semCtl' = Append(Descend(semCtl), BodyFrame("while"))
               /\ semLast' = Plain(Res(Null, "while", "", TInt, testType.ty, TRUE))
               /\ UNCHANGED <<heap, typeEnv_, valueEnv_, nextRecordId_, nextArrayId_,
                              currentReturnType_, semStatus, semDecls>>
    /\ UNCHANGED <<symVars, escVars, irVars, fragment>>

\* visit(WhileExpr*) after the body
SemWhileExit ==
    /\ semStatus = "run"
    /\ SemTop.k = "while"
    /\ IF ~checkTypeEquals(heap, TVoid, SemTop.last)
       THEN Throw(Plain(Fail("whilebody", "", TVoid, SemTop.last)))
       ELSE /\ loopDepth_' = exitLoop(loopDepth_)
            /\ semCtl' = Return(semCtl, TVoid)
            /\ semLast' = Plain(Res(TVoid, "whilebody", "", TVoid, SemTop.last, TRUE))
            /\ UNCHANGED <<heap, typeEnv_, valueEnv_, nextRecordId_, nextArrayId_,
                           currentReturnType_, semStatus, semDecls>>
    /\ UNCHANGED <<symVars, escVars, irVars, fragment>>

\* an expression without a body of its own is visited
SemExpr ==
    /\ ExprPos
    /\ \E e \in SemExprs(fragment) :
          \E r \in {visit(heap, typeEnv_, valueEnv_, e)} :
          IF ~r.ok THEN Throw(Plain(r))
          ELSE /\ semCtl' = [Descend(semCtl) EXCEPT ![Len(semCtl)].last = r.ty]
               /\ semLast' = Plain(r)
               /\ UNCHANGED <<heap, typeEnv_, valueEnv_, nextRecordId_, nextArrayId_,
                              loopDepth_, currentReturnType_, semStatus, semDecls>>
    /\ UNCHANGED <<symVars, escVars, irVars, fragment>>

\* the open visits of loop bodies
LoopFrames(ctl) == {i \in 1..Len(ctl) : ctl[i].k \in {"for", "while"}}

\* visit(BreakExpr*): an error unless inLoop(); the event names the step
\* that came before
SemBreak ==
    /\ ExprPos
    /\ \E ev \in {Plain(Res(TVoid, "break", semLast.op, Null, Null, inLoop(loopDepth_)))} :
          IF ~ev.ok THEN Throw(ev)
          ELSE /\ semCtl' = [Descend(semCtl) EXCEPT ![Len(semCtl)].last = TVoid]
               /\ semLast' = ev
               /\ UNCHANGED <<heap, typeEnv_, valueEnv_, nextRecordId_, nextArrayId_,
                              loopDepth_, currentReturnType_, semStatus, semDecls>>
    /\ UNCHANGED <<symVars, escVars, irVars, fragment>>

\* visit(LetExpr*) after the body: endScope(), and lastType is the result
SemLetExit ==
    /\ semStatus = "run"
    /\ SemTop.k = "let" /\ SemTop.pend = <<>>
    /\ typeEnv_' = endScope(typeEnv_)
    /\ valueEnv_' = endScope(valueEnv_)
    /\ semCtl' = Return(semCtl, SemTop.last)
    /\ semLast' = Step("endlet")
    /\ UNCHANGED <<heap, nextRecordId_, nextArrayId_, loopDepth_, currentReturnType_,
                   semStatus, semDecls>>
    /\ UNCHANGED <<symVars, escVars, irVars, fragment>>

\* analyze(expr) returns
SemFinish ==
    /\ semStatus = "run"
    /\ SemTop.k = "root"
    /\ semStatus' = "done"
    /\ semLast' = Step("done")
    /\ UNCHANGED <<heap, typeEnv_, valueEnv_, nextRecordId_, nextArrayId_, loopDepth_,
                   currentReturnType_, semCtl, semDecls>>
    /\ UNCHANGED <<symVars, escVars, irVars, fragment>>


\* ========================================================================
\* The IR generator (src/ir/ir_generator.cpp)
\* ========================================================================
MaxEnvOps == 5       \* operations applied to the IR environments on their own

\* what lookupVar / lookupFun return for an unknown name
Nullptr == [null |-> TRUE]

\* --- translate::Access (include/translate/frame.hpp)
InFrame(offset) == [kind |-> "InFrame", offset |-> offset, temp |-> -1]
InReg(temp) == [kind |-> "InReg", offset |-> 0, temp |-> temp]

WORD_SIZE == 8
MAX_REG_ARGS == 6

\* --- the entries of the environments; decl is the declaration an entry
\* was made for (the identity of the AST node)
IRVarEntry(l, a, d) == [level |-> l, access |-> a, decl |-> d]
IRFunEntry(l, lab, d) == [level |-> l, label |-> lab, decl |-> d]

\* --- every Temp and every Label of a code address handed out, in order:
\* what it is ("temp" or "label"), its id or name, what it was made for
Minted(what, id, purpose) == <<what, id, purpose>>
WhatOf(m) == m[1]
IdOf(m) == m[2]

\* Label(int id): name_("L" + std::to_string(id))
LabelNames ==
    <<"L0", "L1", "L2", "L3", "L4", "L5", "L6", "L7", "L8", "L9", "L10", "L11",
      "L12", "L13", "L14", "L15", "L16", "L17", "L18", "L19", "L20", "L21", "L22",
      "L23", "L24", "L25", "L26", "L27", "L28", "L29", "L30", "L31">>
Label(id) == LabelNames[id + 1]
\* TempFactory::namedLabel(name): Label(name)
namedLabel(name) == name

\* TempFactory::newTemp() of the IR generator's own factory; the Temp made
\* is Temp(g.tempCounter_)
newTemp(g, purpose) ==
    [g EXCEPT !.tempCounter_ = @ + 1,
              !.minted = Append(@, Minted("temp", g.tempCounter_, purpose))]

\* TempFactory::newLabel() of the IR generator's factory; the Label made
\* is Label(g.labelCounter_)
newLabel(g, purpose) ==
    [g EXCEPT !.labelCounter_ = @ + 1,
              !.minted = Append(@, Minted("label", Label(g.labelCounter_), purpose))]

RECURSIVE newLabels(_, _, _)
newLabels(g, n, purpose) ==
    IF n = 0 THEN g ELSE newLabels(newLabel(g, purpose), n - 1, purpose)

\* TempFactory::newTemp() of the frame factory's factory (X64FrameFactory::
\* tempFactory_), a counter of its own
factoryNewTemp(g, purpose) ==
    [g EXCEPT !.factoryTemps = @ + 1,
              !.minted = Append(@, Minted("temp", g.factoryTemps, purpose))]

\* --- X64Frame::X64Frame: the accesses of the formals, left to right
RECURSIVE frameFormals(_, _, _)
frameFormals(g, formals, fr) ==
    IF Len(fr.formals_) = Len(formals) THEN [g |-> g, frame |-> fr]
    ELSE IF formals[Len(fr.formals_) + 1] \/ Len(fr.formals_) >= MAX_REG_ARGS
         THEN IF Len(fr.formals_) < MAX_REG_ARGS
              THEN frameFormals(g, formals,
                       [fr EXCEPT !.localOffset_ = @ - WORD_SIZE,
                                  !.formals_ = Append(@, InFrame(fr.localOffset_ - WORD_SIZE))])
              ELSE frameFormals(g, formals,
                       [fr EXCEPT !.formals_ =
                           Append(@, InFrame(16 + (Len(fr.formals_) - MAX_REG_ARGS) * WORD_SIZE))])
    ELSE frameFormals(factoryNewTemp(g, "formal"), formals,
                      [fr EXCEPT !.formals_ = Append(@, InReg(g.factoryTemps))])

\* fp_(tempFactory.newTemp()), rv_(tempFactory.newTemp()), then the formals
newFrame(g, name, formals) ==
    frameFormals(factoryNewTemp(factoryNewTemp(g, "fp"), "rv"), formals,
                 [name_ |-> name, formals_ |-> <<>>, localOffset_ |-> 0,
                  fp_ |-> g.factoryTemps, rv_ |-> g.factoryTemps + 1])

\* a Level object: its parent (0: none) and its frame
addLevel(made, parent) ==
    [made.g EXCEPT !.levels = Append(@, [parent |-> parent, frame |-> made.frame])]

\* Level::outermost
outermost(g) == addLevel(newFrame(g, namedLabel("_main"), <<>>), 0)

\* Level::newLevel: a static link in front of the formals it is given
newLevel(g, parent, name, formals) ==
    addLevel(newFrame(g, name, <<TRUE>> \o formals), parent)

\* X64Frame::allocLocal on the frame of level l; the access made is
\* allocated(g, l, escape)
allocated(g, l, escape) ==
    IF escape THEN InFrame(g.levels[l].frame.localOffset_ - WORD_SIZE)
    ELSE InReg(g.factoryTemps)

allocLocal(g, l, escape, purpose) ==
    IF escape THEN [g EXCEPT !.levels[l].frame.localOffset_ = @ - WORD_SIZE]
    ELSE factoryNewTemp(g, purpose)

\* --- scope management
irBeginScope(g) ==
    [g EXCEPT !.varScopes_ = Append(@, <<>>), !.funScopes_ = Append(@, <<>>)]

eraseAll(env, names) == [n \in (DOMAIN env) \ {names[i] : i \in DOMAIN names} |-> env[n]]

Front(s) == SubSeq(s, 1, Len(s) - 1)

irEndScope(g) ==
    [g EXCEPT !.varEnv_ = eraseAll(@, g.varScopes_[Len(g.varScopes_)]),
              !.varScopes_ = Front(@),
              !.funEnv_ = eraseAll(@, g.funScopes_[Len(g.funScopes_)]),
              !.funScopes_ = Front(@)]

addVar(g, name, entry) ==
    [g EXCEPT !.varEnv_ = MapPut(@, name, entry),
              !.varScopes_[Len(g.varScopes_)] = Append(@, name)]

addFun(g, name, entry) ==
    [g EXCEPT !.funEnv_ = MapPut(@, name, entry),
              !.funScopes_[Len(g.funScopes_)] = Append(@, name)]

irLookupVar(g, name) == IF name \in DOMAIN g.varEnv_ THEN g.varEnv_[name] ELSE Nullptr

irLookupFun(g, name) == IF name \in DOMAIN g.funEnv_ THEN g.funEnv_[name] ELSE Nullptr

addFragment(g, frag) == [g EXCEPT !.fragments_ = Append(@, frag)]

\* a fragment; eff lists the source nodes of the body, decl is the function
\* declaration the body belongs to (0: the program)
ProcFragment(eff, body, level, decl) ==
    [kind |-> "proc", eff |-> eff, body |-> body, frame |-> level, decl |-> decl,
     label |-> "", value |-> 0]
StringFragment(label, value) ==
    [kind |-> "string", eff |-> <<>>, body |-> Nullptr, frame |-> 0, decl |-> 0,
     label |-> label, value |-> value]

\* stringLiteral(s)
stringLiteral(g, s) ==
    addFragment(newLabel(g, "string"), StringFragment(Label(g.labelCounter_), s))

\* --- initBuiltins
Builtins ==
    <<"print", "printi", "flush", "getchar", "ord", "chr", "size", "substring",
      "concat", "not", "exit">>

RECURSIVE initBuiltins(_, _)
initBuiltins(g, i) ==
    IF i > Len(Builtins) THEN g
    ELSE initBuiltins(addFun(g, Builtins[i],
                             IRFunEntry(g.currentLevel_, namedLabel(Builtins[i]), 0)),
                      i + 1)

\* --- IRGenerator::IRGenerator
Unbuilt ==
    [varEnv_ |-> EmptyMap, funEnv_ |-> EmptyMap, varScopes_ |-> <<>>, funScopes_ |-> <<>>,
     currentLevel_ |-> 0, levels |-> <<>>, factoryTemps |-> 0,
     tempCounter_ |-> 0, labelCounter_ |-> 0, fragments_ |-> <<>>, breakLabels_ |-> <<>>,
     minted |-> <<>>]

IRGenerator ==
    initBuiltins(irBeginScope([outermost(Unbuilt) EXCEPT !.currentLevel_ = 1]), 1)

\* the semantic analyzer's tables at the same moment: the global scope,
\* the built-in functions in it
RECURSIVE boundBuiltins(_, _)
boundBuiltins(funs, i) ==
    IF i > Len(Builtins) THEN funs
    ELSE boundBuiltins(enter(funs, Builtins[i], IRFunEntry(1, namedLabel(Builtins[i]), 0)),
                       i + 1)

NoEvent == [op |-> "none", name |-> "", entry |-> Nullptr, bind |-> Nullptr,
            result |-> <<>>, kids |-> <<>>, level |-> 0, formals |-> <<>>,
            escape |-> FALSE, access |-> Nullptr, tree |-> Nullptr]

\* the machine before it is given a program
PoweredOff ==
    [status |-> "off", code |-> <<>>, pc |-> 0, temps |-> <<>>, written |-> {},
     trail |-> <<>>, jumped |-> {}]

IRStart ==
    /\ gen = IRGenerator
    /\ bound = [vars |-> beginScope(<<>>), funs |-> boundBuiltins(beginScope(<<>>), 1)]
    /\ irCtl = <<>>
    /\ irPc = "init"
    /\ irProg = [nodes |-> 0, funDecls |-> 0, funDone |-> 0, ops |-> 0, loops |-> <<>>,
                 uses |-> <<>>, written |-> <<>>,
                 branches |-> <<>>]
    /\ irLast = NoEvent
    /\ cpu = PoweredOff

\* ------------------------------------------------------------------------
\* The environments under arbitrary operations, next to a SymbolTable
\* given the same operations
\* ------------------------------------------------------------------------
EnvVarEntries == {IRVarEntry(1, InFrame(-8 * d), d) : d \in 1..2}
EnvFunEntries == {IRFunEntry(1, namedLabel("f"), d) : d \in 1..2}

EnvStep(op, name) ==
    /\ irProg.ops < MaxEnvOps
    /\ irProg' = [irProg EXCEPT !.ops = @ + 1]
    /\ irLast' = [NoEvent EXCEPT !.op = op, !.name = name]
    /\ UNCHANGED <<irCtl, irPc>>
    /\ UNCHANGED <<symVars, escVars, semVars, cpu>>

IRBeginScope ==
    /\ gen' = irBeginScope(gen)
    /\ bound' = [vars |-> beginScope(bound.vars), funs |-> beginScope(bound.funs)]
    /\ EnvStep("beginScope", "")

\* the generator closes only scopes it opened: it never pops the scope
\* of the constructor before the destructor runs
IREndScope ==
    /\ Len(gen.varScopes_) > 1
    /\ gen' = irEndScope(gen)
    /\ bound' = [vars |-> endScope(bound.vars), funs |-> endScope(bound.funs)]
    /\ EnvStep("endScope", "")

IRAddVar ==
    \E n \in Names, e \in EnvVarEntries :
        /\ gen' = addVar(gen, n, e)
        /\ bound' = [bound EXCEPT !.vars = enter(@, n, e)]
        /\ EnvStep("addVar", n)

IRAddFun ==
    \E n \in Names, e \in EnvFunEntries :
        /\ gen' = addFun(gen, n, e)
        /\ bound' = [bound EXCEPT !.funs = enter(@, n, e)]
        /\ EnvStep("addFun", n)

IREnvNext == IRBeginScope \/ IREndScope \/ IRAddVar \/ IRAddFun

\* lookup of a symbol table of entries: no entry for an unknown name
boundTo(scopes, name) == lookupFrom(scopes, Len(scopes), name, Nullptr)

\* ------------------------------------------------------------------------
\* The tree IR (include/ir/tree.hpp).  A null StmPtr is Nullptr.
\* ------------------------------------------------------------------------
CONST(value) == [op |-> "CONST", value |-> value]
NAME(l) == [op |-> "NAME", label |-> l]
TEMP(t) == [op |-> "TEMP", temp |-> t]
BINOP(o, l, r) == [op |-> "BINOP", binop |-> o, left |-> l, right |-> r]
MEM(addr) == [op |-> "MEM", addr |-> addr]
CALL(func, args) == [op |-> "CALL", func |-> func, args |-> args]
ESEQ(s, e) == [op |-> "ESEQ", stm |-> s, exp |-> e]

MOVE(dst, src) == [op |-> "MOVE", dst |-> dst, src |-> src]
EXP(e) == [op |-> "EXP", exp |-> e]
JUMP(l) == [op |-> "JUMP", exp |-> NAME(l), targets |-> <<l>>]
CJUMP(o, l, r, t, f) ==
    [op |-> "CJUMP", relop |-> o, left |-> l, right |-> r, trueLabel |-> t, falseLabel |-> f]
LABEL(l) == [op |-> "LABEL", label |-> l]

\* SEQ(s1, s2): if (!s1) return s2; if (!s2) return s1
SEQ(s1, s2) ==
    IF s1 = Nullptr THEN s2
    ELSE IF s2 = Nullptr THEN s1
    ELSE [op |-> "SEQ", left |-> s1, right |-> s2]

\* SEQ({stms}): result = SEQ(result, s) for every s, from nullptr
RECURSIVE SeqFrom(_, _, _)
SeqFrom(result, stms, i) ==
    IF i > Len(stms) THEN result ELSE SeqFrom(SEQ(result, stms[i]), stms, i + 1)
SEQS(stms) == SeqFrom(Nullptr, stms, 1)

\* accessToExp(access, framePtr, wordSize)
accessToExp(access, framePtr) ==
    CASE access.kind = "InFrame" -> MEM(BINOP("PLUS", framePtr, CONST(access.offset)))
      [] access.kind = "InReg" -> TEMP(access.temp)
      [] OTHER -> CONST(0)

\* the frame pointer as it is, whatever the levels
sameFrame(g, level, toLevel, fp) == fp

\* staticLinkChain(fromLevel, toLevel): from the frame pointer of the
\* current level, the first formal of every level passed on the way up
RECURSIVE followLinks(_, _, _, _)
followLinks(g, level, toLevel, fp) ==
    IF level # toLevel /\ g.levels[level].parent # 0
    THEN followLinks(g, g.levels[level].parent, toLevel,
                     IF g.levels[level].frame.formals_ # <<>>
                     THEN accessToExp(g.levels[level].frame.formals_[1], fp)
                     ELSE fp)
    ELSE fp

staticLinkChain(g, fromLevel, toLevel) ==
    followLinks(g, fromLevel, toLevel, TEMP(g.levels[g.currentLevel_].frame.fp_))

\* accessVar(var)
accessVar(g, var) == accessToExp(var.access, staticLinkChain(g, g.currentLevel_, var.level))

\* machine integers: PLUS and MINUS wrap around
MaxInt == 7          \* the largest machine integer; the smallest is -MaxInt - 1
Wrap(v) == ((v + MaxInt + 1) % (2 * (MaxInt + 1))) - (MaxInt + 1)

\* ------------------------------------------------------------------------
\* Translated expressions (include/ir/translate_exp.hpp).  The IR tree of
\* an expression is kept as the list of the source nodes whose IR it
\* executes, in execution order; a null statement is the empty list.
\* ------------------------------------------------------------------------
makeEx(eff, exp) == [kind |-> "Ex", eff |-> eff, tree |-> exp]
makeNx(eff, stm) == [kind |-> "Nx", eff |-> eff, tree |-> stm]
makeCx(eff, condFn) == [kind |-> "Cx", eff |-> eff, tree |-> condFn]
NoTrans == [kind |-> "none", eff |-> <<>>, tree |-> Nullptr]

\* the functions a Cx is made of: what they capture
\* [left, right](Label t, Label f) { return CJUMP(op, left, right, t, f); }
RelFn(o, left, right) == [fn |-> "rel", relop |-> o, left |-> left, right |-> right]
\* [this, leftExp, rightExp, z](Label t, Label f) of OR and of AND
OrFn(leftExp, rightExp, z) == [fn |-> "or", left |-> leftExp, right |-> rightExp, z |-> z]
\* the closure of AND with the jumps of OR
AndFnEager(leftExp, rightExp, z) == [fn |-> "or", left |-> leftExp, right |-> rightExp, z |-> z]
AndFn(leftExp, rightExp, z) == [fn |-> "and", left |-> leftExp, right |-> rightExp, z |-> z]

\* Ex::unCx, Nx::unCx, Cx::unCx: no name is made on the way
RECURSIVE unCx(_, _, _)
unCx(t, trueL, falseL) ==
    CASE t.kind = "Ex" -> CJUMP("NE", t.tree, CONST(0), trueL, falseL)
      [] t.kind = "Nx" -> JUMP(falseL)
      [] t.kind = "Cx" ->
            CASE t.tree.fn = "rel" ->
                    CJUMP(t.tree.relop, t.tree.left, t.tree.right, trueL, falseL)
              [] t.tree.fn = "and" ->
                    SEQS(<<unCx(t.tree.left, t.tree.z, falseL), LABEL(t.tree.z),
                           unCx(t.tree.right, trueL, falseL)>>)
              [] t.tree.fn = "or" ->
                    SEQS(<<unCx(t.tree.left, trueL, t.tree.z), LABEL(t.tree.z),
                           unCx(t.tree.right, trueL, falseL)>>)

\* a conversion: the generator after it (a Cx mints names), the source
\* nodes of the IR made and the IR made
Conv(g, eff, tree) == [g |-> g, eff |-> eff, tree |-> tree]

\* Cx::unEx with r = Temp(g.tempCounter_) and t, f, join the next three
\* labels
cxValue(g, t) ==
    ESEQ(SEQS(<<MOVE(TEMP(g.tempCounter_), CONST(1)),
                unCx(t, Label(g.labelCounter_), Label(g.labelCounter_ + 1)),
                LABEL(Label(g.labelCounter_ + 1)),
                MOVE(TEMP(g.tempCounter_), CONST(0)),
                JUMP(Label(g.labelCounter_ + 2)),
                LABEL(Label(g.labelCounter_)),
                JUMP(Label(g.labelCounter_ + 2)),
                LABEL(Label(g.labelCounter_ + 2))>>),
         TEMP(g.tempCounter_))

\* Cx::unNx with t, f the next two labels
cxStm(g, t) ==
    SEQS(<<unCx(t, Label(g.labelCounter_), Label(g.labelCounter_ + 1)),
           LABEL(Label(g.labelCounter_)), LABEL(Label(g.labelCounter_ + 1))>>)

\* Ex::unEx, Nx::unEx (CONST(0): the statement is not part of it), Cx::unEx
unEx(g, t) ==
    CASE t.kind = "Ex" -> Conv(g, t.eff, t.tree)
      [] t.kind = "Nx" -> Conv(g, <<>>, CONST(0))
      [] t.kind = "Cx" -> Conv(newLabels(newTemp(g, "result"), 3, "fresh"), t.eff, cxValue(g, t))

\* Ex::unNx, Nx::unNx, Cx::unNx
unNx(g, t) ==
    CASE t.kind = "Ex" -> Conv(g, t.eff, EXP(t.tree))
      [] t.kind = "Nx" -> Conv(g, t.eff, t.tree)
      [] t.kind = "Cx" -> Conv(newLabels(g, 2, "fresh"), t.eff, cxStm(g, t))

\* ------------------------------------------------------------------------
\* The program, read node by node as the generator visits it
\* ------------------------------------------------------------------------
MaxIRNodes == 5      \* nodes of the AST the generator visits
MaxIRNest == 4       \* visit() calls in progress
MaxLinkNodes == 7    \* the same, of a program of nested functions
MaxLinkNest == 5
MaxBreakNodes == 6
MaxBreakNest == 5
MaxCondNodes == 5
MaxCondNest == 4
MaxBranchNodes == 6
MaxBranchNest == 4
NodeBound(part) ==
    CASE part = "links" -> MaxLinkNodes
      [] part = "breaks" -> MaxBreakNodes
      [] part = "conds" -> MaxCondNodes
      [] part = "branches" -> MaxBranchNodes
      [] OTHER -> MaxIRNodes
NestBound(part) ==
    CASE part = "links" -> MaxLinkNest
      [] part = "breaks" -> MaxBreakNest
      [] part = "conds" -> MaxCondNest
      [] part = "branches" -> MaxBranchNest
      [] OTHER -> MaxIRNest

IRVarNames == {"x"}
\* the batches of function declarations: procedure f with no parameter or
\* one, alone or followed by function g(x : int) : int
IRParam(n, e) == [name |-> n, escape |-> e]
FunDecl(n, ps, res) == [name |-> n, params |-> ps, result_type |-> res]
ProcedureF == {FunDecl("f", ps, "") : ps \in {<<>>} \cup {<<IRParam("x", e)>> : e \in BOOLEAN}}
FunctionG == FunDecl("g", <<IRParam("x", FALSE)>>, "int")
Batches == {<<f>> : f \in ProcedureF} \cup {<<f, FunctionG>> : f \in ProcedureF}
\* of a program of nested functions: function f() : int or procedure f()
LinkBatches == {<<FunDecl("f", <<>>, res)>> : res \in {"int", ""}}
BatchesOf(part) == IF part = "links" THEN LinkBatches ELSE Batches

\* the arguments a call that is not translated leaves unvisited
SkippedArgs == {[k |-> "int", funDecls |-> 0], [k |-> "let", funDecls |-> 1]}

\* the functions a program calls
CalleeNames(part) == IF part = "links" THEN {"f", "flush", "printi"} ELSE {"f", "g"}
\* flush(), printi(i: int)
BuiltinDecl(name) ==
    IF name = "printi" THEN FunDecl(name, <<IRParam("i", FALSE)>>, "")
    ELSE FunDecl(name, <<>>, "")

TypeOfResult(res) == IF res = "" THEN "unit" ELSE res

IRFrame(k, want, isLast) ==
    [k |-> k, want |-> want, isLast |-> isLast, stage |-> "body", stm |-> <<>>,
     declStm |-> Nullptr, bodyStm |-> Nullptr, args |-> <<>>, held |-> Nullptr,
     parts |-> <<>>,
     last |-> NoTrans, lastTy |-> "unit", kids |-> <<>>, node |-> 0, decl |-> FunDecl("", <<>>, ""),
     declId |-> 0, savedLevel |-> 0, group |-> <<>>, afterFuns |-> FALSE]

IRTop == irCtl[Len(irCtl)]

\* a frame that waits for an expression; the functions of a batch follow
\* each other
Waiting ==
    /\ irPc = "run"
    /\ irCtl # <<>>
    /\ irProg.nodes < NodeBound(fragment)
    /\ IRTop.stage \in {"decls", "body"}
    /\ IRTop.group = <<>>

\* whether the next expression may be the last one of the frame
\* (a let of nested functions has one expression in its body)
LastChoices(f) == IF f.k \in {"let", "seq"} /\ fragment # "links" THEN BOOLEAN ELSE {TRUE}

Fits(ty, f, last) == ~last \/ f.want = "any" \/ f.want = ty
WantOf(f, last) == IF last THEN f.want ELSE "any"

\* the sub-expressions a visit asks for, one after the other: test and
\* body of a while, left and right of an operator, test, then clause and
\* else clause of an if
Arity(f) ==
    CASE f.k \in {"while", "op"} -> 2
      [] f.k = "if" -> IF f.held.else THEN 3 ELSE 2
      [] OTHER -> 1
NextWant(f) ==
    CASE f.k = "while" -> "unit"
      [] f.k = "if" -> f.held.ty
      [] OTHER -> f.want

\* visit(IfExpr) between the then clause and the else clause: the labels
\* t, f and join are made
ThenVisited(f) == f.k = "if" /\ Len(f.parts) = 1
afterPart(g, f) == IF ThenVisited(f) THEN newLabels(g, 3, "fresh") ELSE g
heldAfter(g, f) ==
    IF ThenVisited(f)
    THEN [f.held EXCEPT !.t = Label(g.labelCounter_), !.f = Label(g.labelCounter_ + 1),
                        !.join = Label(g.labelCounter_ + 2)]
    ELSE f.held

\* Environment::inLoop() where the expression read next stands: the
\* analyzer counts a for and a while while it visits their bodies
loopDepth(ctl) ==
    Cardinality({i \in DOMAIN ctl : \/ ctl[i].k = "for"
                                    \/ ctl[i].k = "while" /\ ctl[i].parts # <<>>})
inLoopAt(ctl) == loopDepth(ctl) > 0

\* the visit of a child returns t to the frame f that asked for it:
\* visit(SeqExpr) and the body loop of visit(LetExpr) turn every
\* expression but the last into a statement at once
returned(conv, f, t, ty, last) ==
    IF f.k \in {"let", "seq"} /\ ~last
    THEN [g |-> conv.g,
          f |-> [f EXCEPT !.stm = @ \o conv.eff, !.bodyStm = SEQ(@, conv.tree),
                          !.kids = Append(@, t.eff), !.stage = "body"]]
    ELSE IF Len(f.parts) + 1 < Arity(f)
    THEN [g |-> afterPart(conv.g, f),
          f |-> [f EXCEPT !.parts = Append(@, t), !.kids = Append(@, t.eff),
                          !.want = NextWant(f), !.held = heldAfter(conv.g, f)]]
    ELSE [g |-> conv.g,
          f |-> [f EXCEPT !.last = t, !.lastTy = ty, !.kids = Append(@, t.eff),
                          !.stage = "done"]]

deliver(g, f, t, ty, last) ==
    IF f.k \in {"let", "seq"} /\ ~last
    THEN returned(unNx(g, t), f, t, ty, last)
    ELSE returned(Conv(g, <<>>, Nullptr), f, t, ty, last)

IREvent(op, name, entry, binding) ==
    [NoEvent EXCEPT !.op = op, !.name = name, !.entry = entry, !.bind = binding]

Visited(g, exp, ty, ev) == [g |-> g, exp |-> exp, ty |-> ty, ev |-> ev]

\* --- the expressions without sub-expressions of their own
IntLeaf == [k |-> "int", name |-> ""]
StringLeaf == [k |-> "string", name |-> ""]
CmpLeaf == [k |-> "cmp", name |-> ""]
UnitLeaf == [k |-> "unit", name |-> ""]
ZeroLeaf == [k |-> "zero", name |-> ""]
BreakLeaf == [k |-> "break", name |-> ""]
VarLeaf(n) == [k |-> "var", name |-> n]
AssignLeaf(n) == [k |-> "assign", name |-> n]

BoundVars(b) == {n \in IRVarNames : boundTo(b.vars, n) # Nullptr}
Assignable(b) == {n \in BoundVars(b) : ~boundTo(b.vars, n).readonly}

\* the leaves a program the semantic analyzer accepts can have here
PlainLeaves(part) ==
    CASE part = "links" -> {IntLeaf}
      [] part = "run" -> {UnitLeaf}
      [] part = "breaks" -> {IntLeaf, UnitLeaf}
      [] part = "conds" -> {IntLeaf, ZeroLeaf, CmpLeaf}
      [] part = "branches" -> {IntLeaf, ZeroLeaf, UnitLeaf}
      [] OTHER -> {IntLeaf, StringLeaf, CmpLeaf, UnitLeaf}

Leaves(g, b) ==
    PlainLeaves(fragment)
        \cup (IF fragment \in {"run", "breaks", "conds", "branches"} THEN {}
              ELSE {VarLeaf(n) : n \in BoundVars(b)} \cup {AssignLeaf(n) : n \in Assignable(b)})
        \cup (IF inLoopAt(irCtl) /\ fragment \notin {"run", "branches"} THEN {BreakLeaf}
              ELSE {})

\* visit(VarExpr) SIMPLE and the destination of visit(AssignExpr): the
\* address of the entry, CONST(0) for an unknown name
simpleVar(g, name) ==
    IF irLookupVar(g, name) = Nullptr THEN CONST(0) ELSE accessVar(g, irLookupVar(g, name))

\* visit(IntExpr), visit(StringExpr), visit(VarExpr) SIMPLE, visit(OpExpr)
\* of a comparison, visit(SeqExpr) of (), visit(BreakExpr) and
\* visit(AssignExpr) of a simple variable, of the node tok
visitLeaf(g, b, leaf, tok) ==
    CASE leaf.k = "int" ->
            Visited(g, makeEx(<<tok>>, CONST(tok)), "int", IREvent("int", "", Nullptr, Nullptr))
      [] leaf.k = "zero" ->
            Visited(g, makeEx(<<tok>>, CONST(0)), "int", IREvent("int", "", Nullptr, Nullptr))
      [] leaf.k = "string" ->
            Visited(stringLiteral(g, tok), makeEx(<<tok>>, NAME(Label(g.labelCounter_))), "string",
                    IREvent("string", "", Nullptr, Nullptr))
      [] leaf.k = "cmp" ->
            Visited(g, makeCx(<<tok>>, RelFn("LT", CONST(tok), CONST(tok))), "int",
                    IREvent("cmp", "", Nullptr, Nullptr))
      [] leaf.k = "unit" ->
            Visited(g, makeNx(<<>>, Nullptr), "unit", IREvent("unit", "", Nullptr, Nullptr))
      [] leaf.k = "break" ->
            Visited(g, IF g.breakLabels_ = <<>> THEN makeNx(<<>>, Nullptr)
                       ELSE makeNx(<<tok>>, JUMP(g.breakLabels_[Len(g.breakLabels_)])),
                    "unit", IREvent("break", "", Nullptr, Nullptr))
      [] leaf.k = "var" ->
            Visited(g, makeEx(<<tok>>, simpleVar(g, leaf.name)), "int",
                    IREvent("var", leaf.name, irLookupVar(g, leaf.name), boundTo(b.vars, leaf.name)))
      [] leaf.k = "assign" ->
            Visited(g, makeNx(<<tok>>, MOVE(simpleVar(g, leaf.name), CONST(tok))), "unit",
                    IREvent("assign", leaf.name, irLookupVar(g, leaf.name),
                          boundTo(b.vars, leaf.name)))

ReplaceTop(f) == [irCtl EXCEPT ![Len(irCtl)] = f]
ReturnTo(f) == Append(Front(Front(irCtl)), f)

IRSet(g, ctl, ev, b) ==
    /\ gen' = g
    /\ irCtl' = ctl
    /\ irLast' = ev
    /\ bound' = b
    /\ UNCHANGED <<symVars, escVars, semVars, cpu>>

NodeRead == irProg' = [irProg EXCEPT !.nodes = @ + 1]

\* generate(): beginScope(), then the program is visited
IRGenerate ==
    /\ irPc = "init"
    /\ irPc' = "run"
    /\ IRSet(irBeginScope(gen), <<[IRFrame("root", "any", TRUE) EXCEPT !.stage = "body"]>>,
             IREvent("generate", "", Nullptr, Nullptr), bound)
    /\ UNCHANGED irProg

IRLeaf ==
    /\ Waiting
    /\ \E leaf \in Leaves(gen, bound), last \in LastChoices(IRTop) :
          \E r \in {visitLeaf(gen, bound, leaf, irProg.nodes + 1)} :
             /\ Fits(r.ty, IRTop, last)
             /\ \E d \in {deliver(r.g, IRTop, r.exp, r.ty, last)} :
                   IRSet(d.g, ReplaceTop(d.f), [r.ev EXCEPT !.tree = r.exp.tree], bound)
    /\ NodeRead
    /\ UNCHANGED irPc

\* --- visit(SeqExpr) of a sequence that is not empty
IRSeqEnter ==
    /\ Waiting
    /\ Len(irCtl) < NestBound(fragment)
    /\ \E last \in LastChoices(IRTop) :
          IRSet(gen, Append(irCtl, [IRFrame("seq", WantOf(IRTop, last), last)
                                       EXCEPT !.node = irProg.nodes + 1]),
                IREvent("seq", "", Nullptr, Nullptr), bound)
    /\ NodeRead
    /\ UNCHANGED irPc

\* the statements before the last expression: SEQ(declStm, bodyStm)
allStm(f) == SEQ(f.declStm, f.bodyStm)

seqResult(conv, f) ==
    IF allStm(f) # Nullptr
    THEN [g |-> conv.g, exp |-> makeEx(f.stm \o conv.eff, ESEQ(allStm(f), conv.tree))]
    ELSE [g |-> conv.g, exp |-> f.last]

\* if (stm) ESEQ(stm, lastExp->unEx()) else lastExp
seqOf(g, f) ==
    IF allStm(f) # Nullptr THEN seqResult(unEx(g, f.last), f)
    ELSE seqResult(Conv(g, <<>>, Nullptr), f)

SeqEvent(op, f, exp) == [NoEvent EXCEPT !.op = op, !.kids = f.kids, !.result = exp.eff]

IRSeqExit ==
    /\ irPc = "run" /\ irCtl # <<>>
    /\ IRTop.k = "seq" /\ IRTop.stage = "done"
    /\ \E r \in {seqOf(gen, IRTop)} :
          \E d \in {deliver(r.g, irCtl[Len(irCtl) - 1], r.exp, IRTop.lastTy, IRTop.isLast)} :
             IRSet(d.g, ReturnTo(d.f), SeqEvent("seqexit", IRTop, r.exp), bound)
    /\ UNCHANGED <<irPc, irProg>>

\* --- visit(LetExpr)
IRLetEnter ==
    /\ Waiting
    /\ Len(irCtl) < NestBound(fragment)
    /\ \E last \in LastChoices(IRTop) :
          IRSet(irBeginScope(gen),
                Append(irCtl, [IRFrame("let", WantOf(IRTop, last), last)
                                  EXCEPT !.stage = "decls", !.node = irProg.nodes + 1]),
                IREvent("let", "", Nullptr, Nullptr),
                [vars |-> beginScope(bound.vars), funs |-> beginScope(bound.funs)])
    /\ NodeRead
    /\ UNCHANGED irPc

\* the body of a let without expressions: lastExp stays makeEx(CONST(0))
LetBody(f) == IF f.stage = "done" THEN f ELSE [f EXCEPT !.last = makeEx(<<>>, CONST(0))]

IRLetExit ==
    /\ irPc = "run" /\ irCtl # <<>>
    /\ IRTop.k = "let"
    /\ IRTop.group = <<>>
    /\ \/ IRTop.stage = "done"
       \/ IRTop.stage = "decls" /\ IRTop.want \in {"any", "unit"}
    /\ \E r \in {seqOf(irEndScope(gen), LetBody(IRTop))} :
          \E d \in {deliver(r.g, irCtl[Len(irCtl) - 1], r.exp, IRTop.lastTy, IRTop.isLast)} :
             IRSet(d.g, ReturnTo(d.f), SeqEvent("letexit", IRTop, r.exp),
                   [vars |-> endScope(bound.vars), funs |-> endScope(bound.funs)])
    /\ UNCHANGED <<irPc, irProg>>

\* --- visit(VarDecl): allocLocal, addVar, then the initializer is visited
Allocation(ev, escape, access) == [ev EXCEPT !.escape = escape, !.access = access]

declStm(f, conv) ==
    [f EXCEPT !.stm = @ \o conv.eff, !.declStm = SEQ(@, conv.tree),
              !.kids = Append(@, conv.eff), !.afterFuns = FALSE]

\* makeNx(MOVE(varAddr, initExp->unEx())), and unNx of it in visit(LetExpr)
varDecl(conv, access) ==
    Conv(conv.g, conv.eff,
         MOVE(accessToExp(access, TEMP(conv.g.levels[conv.g.currentLevel_].frame.fp_)),
              conv.tree))

IRVarDecl ==
    /\ irPc = "run" /\ irCtl # <<>> /\ irProg.nodes < NodeBound(fragment)
    /\ IRTop.k = "let" /\ IRTop.stage = "decls" /\ IRTop.group = <<>>
    /\ \E name \in IRVarNames, escape \in BOOLEAN,
          init \in {IntLeaf} \cup {VarLeaf(n) : n \in BoundVars(bound)} :
          \E access \in {allocated(gen, gen.currentLevel_, escape)} :
          \E g \in {addVar(allocLocal(gen, gen.currentLevel_, escape, "local"), name,
                           IRVarEntry(gen.currentLevel_, access, irProg.nodes + 1))} :
          \E r \in {visitLeaf(g, bound, init, irProg.nodes + 1)} :
          \E c \in {varDecl(unEx(r.g, r.exp), access)} :
             IRSet(c.g, ReplaceTop(declStm(IRTop, c)),
                   Allocation([r.ev EXCEPT !.op = IF init.k = "var" THEN "var" ELSE "vardecl",
                                           !.tree = r.exp.tree],
                              escape, access),
                   [bound EXCEPT !.vars = enter(@, name, [decl |-> irProg.nodes + 1,
                                                          readonly |-> FALSE])])
    /\ NodeRead
    /\ UNCHANGED irPc

\* --- visit(FunctionDecl) up to the visit of the body
ParamId(funId, i) == 100 + 10 * funId + i
Escapes(ps) == [i \in DOMAIN ps |-> ps[i].escape]

\* the headers of a batch, as processFunctionDeclarations enters them
\* before any body; parent is the level the batch is declared at
RECURSIVE boundHeaders(_, _, _, _)
boundHeaders(funs, group, parent, i) ==
    IF i > Len(group) THEN funs
    ELSE boundHeaders(enter(funs, group[i].decl.name,
                            [decl |-> group[i].id, fun |-> group[i].decl, parent |-> parent]),
                      group, parent, i + 1)

RECURSIVE boundParams(_, _, _, _)
boundParams(scopes, ps, funId, i) ==
    IF i > Len(ps) THEN scopes
    ELSE boundParams(enter(scopes, ps[i].name, [decl |-> ParamId(funId, i), readonly |-> FALSE]),
                     ps, funId, i + 1)

\* addVar(decl->params[i]->name, IRVarEntry(currentLevel_, frameFormals[i + 1]))
\* for i = 0 .. params.size() - 1
RECURSIVE addParams(_, _, _, _)
addParams(g, ps, funId, i) ==
    IF i > Len(ps) THEN g
    ELSE addParams(addVar(g, ps[i].name,
                          IRVarEntry(g.currentLevel_,
                                     g.levels[g.currentLevel_].frame.formals_[i + 1],
                                     ParamId(funId, i))),
                   ps, funId, i + 1)

entryLabel(g, name) == [g EXCEPT !.minted = Append(@, Minted("label", namedLabel(name), "entry"))]

\* the level made for the function is the last one of g.levels
enterFunction(g, head) ==
    addParams(irBeginScope([addFun(g, head.decl.name,
                                   IRFunEntry(Len(g.levels), namedLabel(head.decl.name), head.id))
                               EXCEPT !.currentLevel_ = Len(g.levels)]),
              head.decl.params, head.id, 1)

functionDecl(g, head) ==
    enterFunction(newLevel(entryLabel(g, head.decl.name), g.currentLevel_,
                           namedLabel(head.decl.name), <<TRUE>> \o Escapes(head.decl.params)),
                  head)

Numbered(batch, from) == [i \in DOMAIN batch |-> [decl |-> batch[i], id |-> from + i]]

IRFunEnter ==
    /\ irPc = "run" /\ irCtl # <<>> /\ irProg.nodes < NodeBound(fragment)
    /\ Len(irCtl) < NestBound(fragment)
    /\ IRTop.k = "let" /\ IRTop.stage = "decls"
    /\ \E group \in IF IRTop.group # <<>> THEN {IRTop.group}
                    ELSE IF IRTop.afterFuns THEN {}
                    ELSE {Numbered(b, irProg.funDecls) : b \in BatchesOf(fragment)} :
          \E b \in {IF IRTop.group # <<>> THEN bound
                    ELSE [bound EXCEPT !.funs = boundHeaders(@, group, gen.currentLevel_, 1)]} :
          \E g \in {functionDecl(gen, group[1])} :
             /\ IRSet(g,
                      Append(ReplaceTop([IRTop EXCEPT !.group = group]),
                             [IRFrame("fun", TypeOfResult(group[1].decl.result_type), TRUE)
                                 EXCEPT !.decl = group[1].decl, !.declId = group[1].id,
                                        !.savedLevel = gen.currentLevel_,
                                        !.node = irProg.nodes + 1]),
                      [IREvent("fun", group[1].decl.name, Nullptr, Nullptr)
                          EXCEPT !.level = g.currentLevel_,
                                 !.formals = group[1].decl.params],
                      [vars |-> boundParams(beginScope(b.vars), group[1].decl.params,
                                            group[1].id, 1),
                       funs |-> beginScope(b.funs)])
             /\ irProg' = [irProg EXCEPT !.nodes = @ + 1,
                                         !.funDecls = IF IRTop.group # <<>> THEN @
                                                      ELSE @ + Len(group)]
    /\ UNCHANGED irPc

\* --- visit(FunctionDecl) once the body is visited
returnValue(conv) ==
    Conv(conv.g, conv.eff,
         MOVE(TEMP(conv.g.levels[conv.g.currentLevel_].frame.rv_), conv.tree))

functionBody(g, f) ==
    IF f.decl.result_type = "" THEN unNx(g, f.last) ELSE returnValue(unEx(g, f.last))

functionDone(conv, f) ==
    [addFragment(irEndScope(conv.g),
                 ProcFragment(conv.eff, conv.tree, conv.g.currentLevel_, f.declId))
        EXCEPT !.currentLevel_ = f.savedLevel]

IRFunExit ==
    /\ irPc = "run" /\ irCtl # <<>>
    /\ IRTop.k = "fun" /\ IRTop.stage = "done"
    /\ \E c \in {functionBody(gen, IRTop)} :
          IRSet(functionDone(c, IRTop),
                ReturnTo([irCtl[Len(irCtl) - 1] EXCEPT !.group = Tail(@),
                                                       !.afterFuns = TRUE]),
                [IREvent("funexit", IRTop.decl.name, Nullptr, Nullptr)
                    EXCEPT !.tree = c.tree, !.level = gen.currentLevel_],
                [vars |-> endScope(bound.vars), funs |-> endScope(bound.funs)])
    /\ irProg' = [irProg EXCEPT !.funDone = @ + 1]
    /\ UNCHANGED irPc

\* breakLabels_.push_back(done), breakLabels_.pop_back()
pushBreak(g, done) == [g EXCEPT !.breakLabels_ = Append(@, done)]
keepBreak(g) == g
popBreak(g) == [g EXCEPT !.breakLabels_ = Front(@)]

\* --- visit(WhileExpr): the labels test, body and done; done is pushed
\* before the test is visited
whileLocals(g) ==
    [test |-> Label(g.labelCounter_), body |-> Label(g.labelCounter_ + 1),
     done |-> Label(g.labelCounter_ + 2)]

whileLoop(g) == pushBreak(newLabels(g, 3, "fresh"), Label(g.labelCounter_ + 2))

IRWhileEnter ==
    /\ Waiting
    /\ Len(irCtl) < NestBound(fragment)
    /\ \E last \in LastChoices(IRTop) :
          /\ Fits("unit", IRTop, last)
          /\ IRSet(whileLoop(gen),
                   Append(irCtl, [IRFrame("while", "int", last)
                                     EXCEPT !.node = irProg.nodes + 1,
                                            !.held = whileLocals(gen)]),
                   IREvent("while", "", Nullptr, Nullptr), bound)
    /\ NodeRead
    /\ UNCHANGED irPc

whileStm(l, test, body) ==
    SEQS(<<LABEL(l.test), unCx(test, l.body, l.done), LABEL(l.body), body, JUMP(l.test),
           LABEL(l.done)>>)

whileResult(conv, f) ==
    [g |-> conv.g,
     exp |-> makeNx(<<f.node>> \o f.parts[1].eff \o conv.eff,
                    whileStm(f.held, f.parts[1], conv.tree))]

IRWhileExit ==
    /\ irPc = "run" /\ irCtl # <<>>
    /\ IRTop.k = "while" /\ IRTop.stage = "done"
    /\ \E r \in {whileResult(unNx(popBreak(gen), IRTop.last), IRTop)} :
          \E d \in {deliver(r.g, irCtl[Len(irCtl) - 1], r.exp, "unit", IRTop.isLast)} :
             IRSet(d.g, ReturnTo(d.f), IREvent("whileexit", "", Nullptr, Nullptr), bound)
    /\ UNCHANGED <<irPc, irProg>>

\* --- visit(OpExpr): both operands are visited, then both are turned
\* into values; AND and OR keep the operands themselves and a label z
IROpers == {"PLUS", "AND", "OR"}

IROpEnter ==
    /\ Waiting
    /\ Len(irCtl) < NestBound(fragment)
    /\ \E oper \in IROpers, last \in LastChoices(IRTop) :
          /\ Fits("int", IRTop, last)
          /\ IRSet(gen,
                   Append(irCtl, [IRFrame("op", "int", last)
                                     EXCEPT !.node = irProg.nodes + 1, !.held = oper]),
                   IREvent("op", oper, Nullptr, Nullptr), bound)
    /\ NodeRead
    /\ UNCHANGED irPc

opResult(oper, leftExp, rightExp, left, right) ==
    CASE oper = "PLUS" ->
            [g |-> right.g,
             exp |-> makeEx(left.eff \o right.eff, BINOP("PLUS", left.tree, right.tree))]
      [] oper = "AND" ->
            [g |-> newLabel(right.g, "fresh"),
             exp |-> makeCx(leftExp.eff \o rightExp.eff,
                            AndFn(leftExp, rightExp, Label(right.g.labelCounter_)))]
      [] oper = "OR" ->
            [g |-> newLabel(right.g, "fresh"),
             exp |-> makeCx(leftExp.eff \o rightExp.eff,
                            OrFn(leftExp, rightExp, Label(right.g.labelCounter_)))]

\* where the value of a Cx is kept: the names Cx::unEx makes from g
ValueUse(g, t) ==
    IF t.kind = "Cx"
    THEN <<[as |-> "value", cx |-> t, r |-> g.tempCounter_, t |-> Label(g.labelCounter_),
            f |-> Label(g.labelCounter_ + 1)]>>
    ELSE <<>>
\* where a Cx is kept as a statement: the names Cx::unNx makes from g
StmUse(g, t) ==
    IF t.kind = "Cx"
    THEN <<[as |-> "stm", cx |-> t, r |-> 0, t |-> Label(g.labelCounter_),
            f |-> Label(g.labelCounter_ + 1)]>>
    ELSE <<>>

IROpExit ==
    /\ irPc = "run" /\ irCtl # <<>>
    /\ IRTop.k = "op" /\ IRTop.stage = "done"
    /\ \E left \in {unEx(gen, IRTop.parts[1])} :
       \E right \in {unEx(left.g, IRTop.last)} :
       \E r \in {opResult(IRTop.held, IRTop.parts[1], IRTop.last, left, right)} :
       \E d \in {deliver(r.g, irCtl[Len(irCtl) - 1], r.exp, "int", IRTop.isLast)} :
          /\ IRSet(d.g, ReturnTo(d.f),
                   [IREvent("opexit", IRTop.held, Nullptr, Nullptr) EXCEPT !.tree = r.exp.tree],
                   bound)
          /\ irProg' = [irProg EXCEPT
                           !.uses = IF IRTop.held = "PLUS"
                                    THEN @ \o ValueUse(gen, IRTop.parts[1])
                                           \o ValueUse(left.g, IRTop.last)
                                    ELSE @,
                           !.written = IF IRTop.held = "PLUS" THEN @
                                       ELSE Append(@, <<Label(right.g.labelCounter_),
                                                        IRTop.held>>)]
    /\ UNCHANGED irPc

\* --- visit(IfExpr): the test and the then clause are visited, the
\* labels are made, then the else clause is visited
IfTypes == {"unit", "int"}

IRIfEnter ==
    /\ Waiting
    /\ Len(irCtl) < NestBound(fragment)
    /\ \E else \in BOOLEAN, ty \in IfTypes, last \in LastChoices(IRTop) :
          /\ ~else => ty = "unit"
          /\ Fits(ty, IRTop, last)
          /\ IRSet(gen,
                   Append(irCtl, [IRFrame("if", "int", last)
                                     EXCEPT !.node = irProg.nodes + 1,
                                            !.held = [else |-> else, ty |-> ty, t |-> "",
                                                      f |-> "", join |-> ""]]),
                   IREvent("if", "", Nullptr, Nullptr), bound)
    /\ NodeRead
    /\ UNCHANGED irPc

\* if-then-else: makeEx(ESEQ(SEQ({...}), TEMP(r))) with r = Temp(g.tempCounter_)
ifElse(g, l, testExp, then, else) ==
    makeEx(testExp.eff \o then.eff \o else.eff,
           ESEQ(SEQS(<<unCx(testExp, l.t, l.f), LABEL(l.t),
                       MOVE(TEMP(g.tempCounter_), then.tree), JUMP(l.join), LABEL(l.f),
                       MOVE(TEMP(g.tempCounter_), else.tree), JUMP(l.join),
                       LABEL(l.join)>>),
                TEMP(g.tempCounter_)))

\* if-then: makeNx(SEQ({...})) with t and f the next two labels of g
ifThen(g, testExp, then) ==
    makeNx(testExp.eff \o then.eff,
           SEQS(<<unCx(testExp, Label(g.labelCounter_), Label(g.labelCounter_ + 1)),
                  LABEL(Label(g.labelCounter_)), then.tree,
                  LABEL(Label(g.labelCounter_ + 1))>>))

IRIfExit ==
    /\ irPc = "run" /\ irCtl # <<>>
    /\ IRTop.k = "if" /\ IRTop.stage = "done"
    /\ \E r \in
          (IF IRTop.held.else
           THEN {[g |-> else.g, exp |-> ifElse(gen, IRTop.held, IRTop.parts[1], then, else)] :
                    then \in {unEx(newTemp(gen, "result"), IRTop.parts[2])},
                    else \in {unEx(unEx(newTemp(gen, "result"), IRTop.parts[2]).g,
                                    IRTop.last)}}
           ELSE {[g |-> then.g, exp |-> ifThen(gen, IRTop.parts[1], then)] :
                    then \in {unNx(newLabels(gen, 3, "fresh"), IRTop.last)}}) :
       \E d \in {deliver(r.g, irCtl[Len(irCtl) - 1], r.exp, IRTop.held.ty, IRTop.isLast)} :
          /\ IRSet(d.g, ReturnTo(d.f),
                   [IREvent("ifexit", "", Nullptr, Nullptr) EXCEPT !.tree = r.exp.tree], bound)
          /\ irProg' = [irProg EXCEPT !.branches =
                           IF IRTop.held.else
                           THEN Append(@, [test |-> IRTop.parts[1], then |-> IRTop.parts[2],
                                           else |-> IRTop.last, ty |-> IRTop.held.ty])
                           ELSE @]
    /\ UNCHANGED irPc

\* --- visit(ForExpr) up to the visit of the body: the labels body, incr
\* and done, the index, lo and hi (integers, or variables read once the
\* index is in scope), varAddr, the limit
forHeader(g, name, escape, access, tok) ==
    addVar(irBeginScope(allocLocal(newLabels(g, 3, "fresh"), g.currentLevel_, escape, "local")),
           name, IRVarEntry(g.currentLevel_, access, tok))

forLoop(g, name, escape, access, tok) ==
    pushBreak(newTemp(forHeader(g, name, escape, access, tok), "limit"),
              Label(g.labelCounter_ + 2))

\* what visit(ForExpr) holds while the body is visited
forLocals(g, access, lo, hi) ==
    [body |-> Label(g.labelCounter_), incr |-> Label(g.labelCounter_ + 1),
     done |-> Label(g.labelCounter_ + 2),
     varAddr |-> accessToExp(access, TEMP(g.levels[g.currentLevel_].frame.fp_)),
     limit |-> g.tempCounter_, lo |-> lo, hi |-> hi]

\* lo and hi: 0 and 1, or of a program that is run an empty range, two
\* values, the two largest integers
ForRanges(part) ==
    IF part = "run" THEN {<<1, 0>>, <<0, 1>>, <<MaxInt - 1, MaxInt>>} ELSE {<<0, 1>>}
\* findEscapes leaves escape false in a program without functions
EscapeChoices(part) ==
    IF part \in {"run", "breaks", "branches"} THEN {FALSE} ELSE BOOLEAN

\* lo: an integer, or a variable the analyzer finds in the scope around
\* the loop ("": an integer)
LoNames(part, b) == IF part = "functions" THEN {""} \cup BoundVars(b) ELSE {""}

\* lo as visit(ForExpr) translates it, the index already added
loExp(g, range, loName) == IF loName = "" THEN CONST(range[1]) ELSE simpleVar(g, loName)

\* the variable lo is, as the generator and as the analyzer find it
LoEvent(ev, g, b, loName) ==
    IF loName = "" THEN ev
    ELSE [ev EXCEPT !.entry = irLookupVar(g, loName), !.bind = boundTo(b.vars, loName),
                    !.result = <<loName>>]

IRForEnter ==
    /\ Waiting
    /\ Len(irCtl) < NestBound(fragment)
    /\ \E name \in IRVarNames, escape \in EscapeChoices(fragment),
          last \in LastChoices(IRTop), range \in ForRanges(fragment),
          loName \in LoNames(fragment, bound) :
          /\ Fits("unit", IRTop, last)
          /\ \E access \in {allocated(gen, gen.currentLevel_, escape)} :
             \E g \in {forHeader(gen, name, escape, access, irProg.nodes + 1)} :
             \E held \in {forLocals(gen, access, loExp(g, range, loName), CONST(range[2]))} :
                /\ IRSet(forLoop(gen, name, escape, access, irProg.nodes + 1),
                         Append(irCtl, [IRFrame("for", "unit", last)
                                           EXCEPT !.node = irProg.nodes + 1, !.held = held]),
                         LoEvent(Allocation(IREvent("for", name, Nullptr, Nullptr), escape,
                                            access), g, bound, loName),
                         [vars |-> enter(beginScope(bound.vars), name,
                                         [decl |-> irProg.nodes + 1, readonly |-> TRUE]),
                          funs |-> beginScope(bound.funs)])
                /\ irProg' = [irProg EXCEPT !.nodes = @ + 1, !.loops = Append(@, held)]
    /\ UNCHANGED irPc

\* the statement of the loop, of what was held and of the body
forStm(l, body) ==
    SEQS(<<MOVE(l.varAddr, l.lo), MOVE(TEMP(l.limit), l.hi),
           CJUMP("LE", l.varAddr, TEMP(l.limit), l.body, l.done), LABEL(l.body),
           body,
           CJUMP("LT", l.varAddr, TEMP(l.limit), l.incr, l.done), LABEL(l.incr),
           MOVE(l.varAddr, BINOP("PLUS", l.varAddr, CONST(1))), JUMP(l.body),
           LABEL(l.done)>>)

forResult(conv, f) ==
    [g |-> conv.g, exp |-> makeNx(<<f.node>> \o conv.eff, forStm(f.held, conv.tree))]

IRForExit ==
    /\ irPc = "run" /\ irCtl # <<>>
    /\ IRTop.k = "for" /\ IRTop.stage = "done"
    /\ \E r \in {forResult(unNx(irEndScope(popBreak(gen)),
                                IRTop.last), IRTop)} :
          \E d \in {deliver(r.g, irCtl[Len(irCtl) - 1], r.exp, "unit", IRTop.isLast)} :
             IRSet(d.g, ReturnTo(d.f), IREvent("forexit", "", Nullptr, Nullptr),
                   [vars |-> endScope(bound.vars), funs |-> endScope(bound.funs)])
    /\ UNCHANGED <<irPc, irProg>>

\* --- visit(CallExpr): an unknown function returns CONST(0) before any
\* argument is visited
IRCallees(b) == {n \in CalleeNames(fragment) : boundTo(b.funs, n) # Nullptr}

\* the declaration a call is checked against: that of the program, or
\* the signature of the built-in function
calleeDecl(callee, name) == IF callee.decl = 0 THEN BuiltinDecl(name) ELSE callee.fun

\* if (funEntry->level && funEntry->level->parent()) args.push_back(...)
staticLinkArg(g, funEntry) ==
    IF funEntry.level # 0 /\ g.levels[funEntry.level].parent # 0
    THEN <<staticLinkChain(g, g.currentLevel_, g.levels[funEntry.level].parent)>>
    ELSE <<>>

\* makeEx(CALL(NAME(funEntry->label), std::move(args)))
callTo(funEntry, args) == CALL(NAME(funEntry.label), args)

CallEvent(name, entry, callee, exp) ==
    [IREvent("call", name, entry, callee) EXCEPT !.tree = exp.tree]

IRCall ==
    /\ Waiting
    /\ \E name \in IRCallees(bound), last \in LastChoices(IRTop) :
          \E callee \in {boundTo(bound.funs, name)}, entry \in {irLookupFun(gen, name)} :
          \E decl \in {calleeDecl(callee, name)} :
          \E ty \in {TypeOfResult(decl.result_type)} :
             /\ Fits(ty, IRTop, last)
             /\ IF entry = Nullptr
                THEN \E skipped \in IF decl.params = <<>> THEN {[k |-> "none", funDecls |-> 0]}
                                    ELSE SkippedArgs :
                     /\ \E e \in {makeEx(<<irProg.nodes + 1>>, CONST(0))} :
                        \E d \in {deliver(gen, IRTop, e, ty, last)} :
                           IRSet(d.g, ReplaceTop(d.f), CallEvent(name, entry, callee, e), bound)
                     /\ irProg' = [irProg EXCEPT !.nodes = @ + 1,
                                                 !.funDecls = @ + skipped.funDecls,
                                                 !.funDone = @ + skipped.funDecls]
                ELSE IF decl.params = <<>>
                THEN /\ \E e \in {makeEx(<<irProg.nodes + 1>>,
                                         callTo(entry, staticLinkArg(gen, entry)))} :
                        \E d \in {deliver(gen, IRTop, e, ty, last)} :
                           IRSet(d.g, ReplaceTop(d.f), CallEvent(name, entry, callee, e), bound)
                     /\ NodeRead
                ELSE /\ Len(irCtl) < NestBound(fragment)
                     /\ IRSet(gen,
                              Append(irCtl, [IRFrame("call", "int", last)
                                                EXCEPT !.node = irProg.nodes + 1,
                                                       !.decl = decl,
                                                       !.held = [entry |-> entry,
                                                                 callee |-> callee],
                                                       !.args = staticLinkArg(gen, entry)]),
                              IREvent("call", name, entry, callee), bound)
                     /\ NodeRead
    /\ UNCHANGED irPc

callResult(conv, f) ==
    [g |-> conv.g,
     exp |-> makeEx(conv.eff \o <<f.node>>, callTo(f.held.entry, Append(f.args, conv.tree))),
     arg |-> conv.tree]

\* args.push_back(argExp->unEx()), then CALL
IRCallExit ==
    /\ irPc = "run" /\ irCtl # <<>>
    /\ IRTop.k = "call" /\ IRTop.stage = "done"
    /\ \E r \in {callResult(unEx(gen, IRTop.last), IRTop)} :
          \E d \in {deliver(r.g, irCtl[Len(irCtl) - 1], r.exp,
                            TypeOfResult(IRTop.decl.result_type), IRTop.isLast)} :
             IRSet(d.g, ReturnTo(d.f),
                   [IREvent("callexit", IRTop.decl.name, IRTop.held.entry, IRTop.held.callee)
                       EXCEPT !.tree = r.exp.tree, !.kids = <<r.arg>>],
                   bound)
    /\ UNCHANGED <<irPc, irProg>>

\* --- generate() once the program is visited: the fragment of the program
\* body, then endScope()
mainFragment(conv) ==
    irEndScope(addFragment(conv.g, ProcFragment(conv.eff, conv.tree, conv.g.currentLevel_, 0)))

IRFinish ==
    /\ irPc = "run" /\ irCtl # <<>>
    /\ IRTop.k = "root" /\ IRTop.stage = "done"
    /\ irPc' = "done"
    /\ IRSet(mainFragment(unNx(gen, IRTop.last)), <<>>,
             IREvent("finish", "", Nullptr, Nullptr), bound)
    /\ irProg' = [irProg EXCEPT !.uses = @ \o StmUse(gen, IRTop.last)]

IRGenNext ==
    \/ IRGenerate \/ IRLeaf \/ IRSeqEnter \/ IRSeqExit \/ IRLetEnter \/ IRLetExit
    \/ IRVarDecl \/ IRFunEnter \/ IRFunExit \/ IRForEnter \/ IRForExit
    \/ IRCall \/ IRCallExit \/ IRFinish

\* ------------------------------------------------------------------------
\* A machine for the tree IR (include/ir/tree.hpp): the statements of a
\* body in order, an expression evaluated when its statement is reached.
\* The statement of an ESEQ runs before the statement that holds it; no
\* body run here has an operand in front of an ESEQ that the statement of
\* the ESEQ writes.
\* ------------------------------------------------------------------------

\* the statements inside the ESEQs of an expression, and the expression
\* without them
RECURSIVE Hoisted(_)
RECURSIVE Linear(_)
RECURSIVE Bare(_)
RECURSIVE HoistedAll(_, _)
RECURSIVE BareAll(_, _)
Hoisted(e) ==
    CASE e.op = "ESEQ" -> Linear(e.stm) \o Hoisted(e.exp)
      [] e.op = "BINOP" -> Hoisted(e.left) \o Hoisted(e.right)
      [] e.op = "MEM" -> Hoisted(e.addr)
      [] e.op = "CALL" -> HoistedAll(e.args, 1)
      [] OTHER -> <<>>
HoistedAll(es, i) == IF i > Len(es) THEN <<>> ELSE Hoisted(es[i]) \o HoistedAll(es, i + 1)
Bare(e) ==
    CASE e.op = "ESEQ" -> Bare(e.exp)
      [] e.op = "BINOP" -> BINOP(e.binop, Bare(e.left), Bare(e.right))
      [] e.op = "MEM" -> MEM(Bare(e.addr))
      [] e.op = "CALL" -> CALL(e.func, BareAll(e.args, 1))
      [] OTHER -> e
BareAll(es, i) == IF i > Len(es) THEN <<>> ELSE <<Bare(es[i])>> \o BareAll(es, i + 1)

\* the statements of a body, one after the other
Linear(s) ==
    IF s = Nullptr THEN <<>>
    ELSE CASE s.op = "SEQ" -> Linear(s.left) \o Linear(s.right)
           [] s.op = "MOVE" ->
                 Hoisted(s.dst) \o Hoisted(s.src) \o <<MOVE(Bare(s.dst), Bare(s.src))>>
           [] s.op = "EXP" -> Hoisted(s.exp) \o <<EXP(Bare(s.exp))>>
           [] s.op = "CJUMP" ->
                 Hoisted(s.left) \o Hoisted(s.right)
                    \o <<CJUMP(s.relop, Bare(s.left), Bare(s.right), s.trueLabel, s.falseLabel)>>
           [] OTHER -> <<s>>

\* the temporaries an expression reads
RECURSIVE Reads(_)
Reads(e) ==
    CASE e.op = "TEMP" -> {e.temp}
      [] e.op = "BINOP" -> Reads(e.left) \cup Reads(e.right)
      [] e.op = "MEM" -> Reads(e.addr)
      [] OTHER -> {}

\* the value of an expression without memory and without calls
RECURSIVE Eval(_, _)
Eval(e, temps) ==
    CASE e.op = "CONST" -> e.value
      [] e.op = "TEMP" -> temps[e.temp]
      [] e.op = "BINOP" ->
            IF e.binop = "PLUS" THEN Wrap(Eval(e.left, temps) + Eval(e.right, temps))
            ELSE Wrap(Eval(e.left, temps) - Eval(e.right, temps))
      [] OTHER -> 0

Holds(relop, l, r) ==
    CASE relop = "EQ" -> l = r
      [] relop = "NE" -> l # r
      [] relop = "LT" -> l < r
      [] relop = "LE" -> l <= r
      [] relop = "GT" -> l > r
      [] relop = "GE" -> l >= r

Targets(code, l) == {i \in DOMAIN code : code[i] = LABEL(l)}

\* the temporaries of the body: every one has a register of the machine
RECURSIVE TempsOf(_)
TempsOf(e) ==
    CASE e.op = "TEMP" -> {e.temp}
      [] e.op = "BINOP" -> TempsOf(e.left) \cup TempsOf(e.right)
      [] e.op = "MEM" -> TempsOf(e.addr)
      [] e.op = "MOVE" -> TempsOf(e.dst) \cup TempsOf(e.src)
      [] e.op = "EXP" -> TempsOf(e.exp)
      [] e.op = "CJUMP" -> TempsOf(e.left) \cup TempsOf(e.right)
      [] OTHER -> {}
Registers(code) == UNION {TempsOf(code[i]) : i \in DOMAIN code}

\* the body of the program: the last fragment
ProgramBody == gen.fragments_[Len(gen.fragments_)].body

\* the program body is loaded; no register holds a value yet
IRLoad ==
    /\ irPc = "done"
    /\ cpu.status = "off"
    /\ \E code \in {Linear(ProgramBody)} :
          cpu' = [status |-> "on", code |-> code, pc |-> 1,
                  temps |-> [t \in Registers(code) |-> 0], written |-> {},
                  trail |-> <<>>, jumped |-> {}]
    /\ UNCHANGED <<gen, bound, irCtl, irPc, irProg, irLast>>
    /\ UNCHANGED <<symVars, escVars, semVars>>

MaxTrail == 16       \* passes of loop labels a run is followed for

\* the loop a label is the body label or the incr label of (0: none)
LoopOf(l) ==
    IF \E i \in DOMAIN irProg.loops : l \in {irProg.loops[i].body, irProg.loops[i].incr}
    THEN CHOOSE i \in DOMAIN irProg.loops : l \in {irProg.loops[i].body, irProg.loops[i].incr}
    ELSE 0

\* what passing a label leaves in the trail: the body label or the incr
\* label of a loop with the value of its index
Passed(c, l) ==
    IF LoopOf(l) # 0
    THEN Append(c.trail, <<l, Eval(irProg.loops[LoopOf(l)].varAddr, c.temps)>>)
    ELSE c.trail

\* a jump taken to the label l, found at i
Goto(c, l, i) == [c EXCEPT !.pc = i, !.jumped = @ \cup {l}]

\* one statement
Executed(c, s) ==
    CASE s.op = "LABEL" -> {[c EXCEPT !.pc = @ + 1, !.trail = Passed(c, s.label)]}
      [] s.op = "JUMP" ->
            IF Targets(c.code, s.targets[1]) = {} THEN {[c EXCEPT !.status = "fault"]}
            ELSE {Goto(c, s.targets[1], i) : i \in Targets(c.code, s.targets[1])}
      [] s.op = "CJUMP" ->
            IF ~(Reads(s.left) \cup Reads(s.right) \subseteq c.written)
            THEN {[c EXCEPT !.status = "fault"]}
            ELSE LET l == IF Holds(s.relop, Eval(s.left, c.temps), Eval(s.right, c.temps))
                          THEN s.trueLabel ELSE s.falseLabel
                 IN  IF Targets(c.code, l) = {} THEN {[c EXCEPT !.status = "fault"]}
                     ELSE {Goto(c, l, i) : i \in Targets(c.code, l)}
      [] s.op = "MOVE" ->
            IF ~(Reads(s.src) \subseteq c.written) \/ s.dst.op # "TEMP"
            THEN {[c EXCEPT !.status = "fault"]}
            ELSE {[c EXCEPT !.pc = @ + 1,
                            !.temps[s.dst.temp] = Eval(s.src, c.temps),
                            !.written = @ \cup {s.dst.temp}]}
      [] s.op = "EXP" ->
            IF ~(Reads(s.exp) \subseteq c.written) THEN {[c EXCEPT !.status = "fault"]}
            ELSE {[c EXCEPT !.pc = @ + 1]}

IRStep ==
    /\ cpu.status = "on"
    /\ Len(cpu.trail) < MaxTrail
    /\ IF cpu.pc > Len(cpu.code) THEN cpu' = [cpu EXCEPT !.status = "halted"]
       ELSE cpu' \in Executed(cpu, cpu.code[cpu.pc])
    /\ UNCHANGED <<gen, bound, irCtl, irPc, irProg, irLast>>
    /\ UNCHANGED <<symVars, escVars, semVars>>

\* ========================================================================
\* Properties of the semantic analyzer
\* ========================================================================
\* t is, behind its aliases, a record or an array type
Composite(t) ==
    /\ t # Null
    /\ actual(heap, t) # Hang
    /\ heap[actual(heap, t)].kind \in {"record", "array"}

\* C3: when the last step checked an assignment, an initializer, an argument
\* or a comparison between two record or array types, it accepted it exactly
\* when both types come from the same type declaration, that is, when
\* behind their aliases they are the same type object.
C3_NominalTypes ==
    (/\ semLast.op \in {"assign", "init", "arg", "cmp"}
     /\ Composite(semLast.exp)
     /\ Composite(semLast.act))
        => (semLast.ok <=> actual(heap, semLast.exp) = actual(heap, semLast.act))

\* a comparison between two records with the same fields from two
\* declarations was rejected
C3_Witness ==
    /\ semLast.op = "cmp" /\ ~semLast.ok
    /\ Composite(semLast.exp) /\ Composite(semLast.act)
    /\ heap[actual(heap, semLast.exp)].kind = "record"
    /\ heap[actual(heap, semLast.act)].kind = "record"
    /\ heap[actual(heap, semLast.exp)].fields = heap[actual(heap, semLast.act)].fields
    /\ actual(heap, semLast.exp) # actual(heap, semLast.act)

\* the aliases met from t on by following the bindings, t first, while an
\* alias is met, for at most fuel steps
RECURSIVE aliasPath(_, _, _)
aliasPath(h, t, fuel) ==
    IF t = Null \/ fuel = 0 THEN <<>>
    ELSE IF h[t].kind # "name" THEN <<>>
    ELSE <<t>> \o aliasPath(h, h[t].binding, fuel - 1)

\* following the alias bindings from t returns to an alias name seen before
\* without passing a record or an array
NameRepeats(h, t) ==
    LET p == aliasPath(h, t, Len(h) + 1) IN
    \E i \in 1..Len(p) : \E j \in (i + 1)..Len(p) : h[p[i]].name = h[p[j]].name

\* C4: a batch of type declarations, all of whose type names are defined,
\* is rejected for a cycle exactly when the chain of aliases from one of
\* its members returns to a name already seen; otherwise, and so whenever
\* the recursion passes a record or an array, it is accepted.
C4_AliasCycleRejected ==
    (semLast.op = "typegroup" /\ semLast.name # "undefined")
        => /\ semLast.ok <=> semLast.name # "cycle"
           /\ semLast.name = "cycle" <=>
                 \E j \in 1..Len(semLast.decls) :
                     NameRepeats(heap, lookupType(typeEnv_, semLast.decls[j].name))

\* the batch  type a = b  type b = a  (or the other way round) was rejected
C4_Witness ==
    /\ semLast.op = "typegroup" /\ semLast.name = "cycle"
    /\ Len(semLast.decls) = 2
    /\ semLast.decls[1].name # semLast.decls[2].name
    /\ semLast.decls[1].type = AstName(semLast.decls[2].name)
    /\ semLast.decls[2].type = AstName(semLast.decls[1].name)

\* the declarations at the positions pos stand next to one another
Consecutive(pos) == \A j \in 1..(Len(pos) - 1) : pos[j + 1] = pos[j] + 1

\* C5: a batch of consecutive type declarations, or of consecutive function
\* declarations, that declares one name twice is rejected.
C5_DuplicatesRejected ==
    (/\ semLast.op \in {"typegroup", "fungroup"}
     /\ Consecutive(semLast.pos)
     /\ \E i \in 1..Len(semLast.decls) : \E j \in (i + 1)..Len(semLast.decls) :
            semLast.decls[i].name = semLast.decls[j].name)
        => ~semLast.ok

\* the type names an ast::Type refers to
Refs(ty) ==
    IF ty.k = "record" THEN {ty.fields[i].type_id : i \in 1..Len(ty.fields)} ELSE {ty.n}

\* C6: a type declaration refers only to types visible before its let round,
\* declared earlier in the let, or declared in its own run of consecutive
\* type declarations; a batch where a function declaration stands between a
\* declaration and the type it refers forward to is rejected.
C6_TypeRunsEndAtOtherKinds ==
    (semLast.op = "typegroup" /\ semLast.ok)
        => \A j \in 1..Len(semLast.decls) : \A n \in Refs(semLast.decls[j].type) :
              \/ n \in semLast.pre
              \/ \E i \in 1..Len(semLast.decls) :
                    /\ semLast.decls[i].name = n
                    /\ i < j \/ semLast.pos[i] - semLast.pos[j] = i - j

\* C7: a variable declaration without a declared type whose initializer has
\* the type Nil is rejected.
C7_BareNilRejected ==
    (semLast.op = "init" /\ semLast.exp = Null /\ semLast.act = TNil) => ~semLast.ok

\* t is, behind its aliases, a record type
IsRecordType(t) == Composite(t) /\ heap[actual(heap, t)].kind = "record"

\* C8: a comparison between two Nil operands is rejected, a comparison of
\* Nil with a record (on either side) is accepted, and a comparison of Nil
\* with any other type is rejected.
C8_NilComparisons ==
    semLast.op = "cmp" =>
        LET l == semLast.exp
            r == semLast.act
        IN /\ (l = TNil /\ r = TNil) => ~semLast.ok
           /\ ((l = TNil /\ IsRecordType(r)) \/ (IsRecordType(l) /\ r = TNil)) => semLast.ok
           /\ ((l = TNil /\ r # TNil /\ ~IsRecordType(r))
                  \/ (r = TNil /\ l # TNil /\ ~IsRecordType(l))) => ~semLast.ok

\* C9: the body of a procedure (no result type) is accepted exactly when its
\* type is Unit, and the body of a function with a result type exactly when
\* its type equals the result type (for a function whose name is declared
\* once in its batch).
C9_BodyMatchesResult ==
    semLast.op = "funbody" =>
        LET gi == semLast.pos[1]
            decl == semLast.decls[gi]
        IN (\A i \in 1..Len(semLast.decls) : i # gi => semLast.decls[i].name # decl.name)
              => IF decl.result_type = ""
                 THEN semLast.ok <=> semLast.act = TVoid
                 ELSE semLast.ok <=>
                         equals(heap, lookupType(typeEnv_, decl.result_type), semLast.act)

\* C10: an assignment whose target is a simple identifier is rejected when
\* the identifier resolves to a for index, and when it resolves to a
\* variable or a parameter it is accepted exactly when the types fit.
C10_ForIndexReadOnly ==
    (semLast.op \in {"assign", "readonly"} /\ semLast.name # "")
        => LET target == lookupValue(valueEnv_, semLast.name) IN
           /\ target.decl = "for" => ~semLast.ok
           /\ target.decl \in {"var", "param"} =>
                 (semLast.ok <=> checkAssignable(heap, semLast.exp, semLast.act))

\* an assignment to the index was rejected in a function body nested in the
\* body of the loop
C10_Witness ==
    /\ semLast.op = "readonly" /\ ~semLast.ok
    /\ lookupValue(valueEnv_, semLast.name).decl = "for"
    /\ \E i \in 1..Len(semCtl) : \E j \in (i + 1)..Len(semCtl) :
          semCtl[i].k = "for" /\ semCtl[j].k = "fun"

\* C11: break is accepted exactly when the visit of a while or for body
\* that encloses it is open, and the loop depth is the number of open loop
\* bodies: it is back at its previous value when a loop has been analyzed.
C11_BreakInsideLoop ==
    /\ loopDepth_ = Cardinality(LoopFrames(semCtl))
    /\ semLast.op = "break" => (semLast.ok <=> LoopFrames(semCtl) # {})

\* a break that follows a completed loop, outside every loop, was rejected
C11_Witness ==
    /\ semLast.op = "break" /\ ~semLast.ok
    /\ semLast.name \in {"whilebody", "endfor"}
    /\ LoopFrames(semCtl) = {}

\* C12: an if with an else clause is accepted only when the test is Int and
\* both clauses have the same type, which is then the type of the if; an if
\* without else is accepted only when the test is Int and the then clause
\* is Unit, and its type is Unit.
C12_IfBranchesAgree ==
    (semLast.op \in {"ifelse", "ifthen"} /\ semLast.ok)
        => /\ semLast.name = "int"
           /\ actual(heap, semLast.exp) = actual(heap, semLast.act)
           /\ SemTop.last = semLast.exp

\* the batch declares no name twice
DistinctNames(decls) ==
    \A i \in 1..Len(decls) : \A j \in 1..Len(decls) :
        decls[i].name = decls[j].name => i = j

\* C13: in an accepted batch of type declarations (without duplicate
\* names), every field of a record of the batch whose declared type names a
\* record of the batch resolves, by actual(), to the record object of that
\* declaration: to the record that holds the field when it names its own
\* declaration, and to the other record when it names another one.
C13_RecursiveFieldsResolve ==
    (semLast.op = "typegroup" /\ semLast.ok /\ DistinctNames(semLast.decls))
        => \A j \in 1..Len(semLast.decls) : \A k \in 1..Len(semLast.decls) :
              (semLast.decls[j].type.k = "record" /\ semLast.decls[k].type.k = "record")
                 => LET rec == actual(heap, lookupType(typeEnv_, semLast.decls[j].name))
                        target == actual(heap, lookupType(typeEnv_, semLast.decls[k].name))
                    IN /\ rec > Null /\ target > Null
                       /\ heap[rec].kind = "record" /\ heap[target].kind = "record"
                       /\ (rec = target) <=> (j = k)
                       /\ Len(heap[rec].fields) = Len(semLast.decls[j].type.fields)
                       /\ \A i \in 1..Len(semLast.decls[j].type.fields) :
                             semLast.decls[j].type.fields[i].type_id = semLast.decls[k].name
                                => actual(heap, heap[rec].fields[i].type) = target

\* the batch  type a = {f : b}  type b = {f : a}  was accepted
C13_Witness ==
    /\ semLast.op = "typegroup" /\ semLast.ok
    /\ Len(semLast.decls) = 2
    /\ semLast.decls[1].name # semLast.decls[2].name
    /\ semLast.decls[1].type = AstRecord(<<AstField(FieldName, semLast.decls[2].name)>>)
    /\ semLast.decls[2].type = AstRecord(<<AstField(FieldName, semLast.decls[1].name)>>)

\* a type name resolves to an alias that was never bound
UnboundAliasVisible ==
    \E n \in VisibleTypes(typeEnv_) :
        LET t == lookupType(typeEnv_, n) IN
        heap[t].kind = "name" /\ heap[t].binding = Null

\* C17: when a SemanticError has left analyze(), the type and value scope
\* depths and the loop depth are what they were before analyze() (the
\* global scope alone, no loop), and no unbound alias is visible.
C17_ErrorClosesScopes ==
    semStatus = "error" =>
        /\ scopeDepth(typeEnv_) = 1
        /\ scopeDepth(valueEnv_) = 1
        /\ loopDepth_ = 0
        /\ ~UnboundAliasVisible

\* ------------------------------------------------------------------------
\* C19: the variable and function environments of the IR generator answer
\* every lookup as a scoped symbol table given the same beginScope / add /
\* endScope operations does: a name re-declared in an inner scope is the
\* enclosing scope's again once the inner scope has ended, and a name
\* declared only in ended scopes is not found.
C19_EnvLikeSymbolTable ==
    \A n \in Names :
        /\ irLookupVar(gen, n) = boundTo(bound.vars, n)
        /\ irLookupFun(gen, n) = boundTo(bound.funs, n)

\* ------------------------------------------------------------------------
ProcFragments(frags) == {i \in DOMAIN frags : frags[i].kind = "proc"}
StringFragments(frags) == {i \in DOMAIN frags : frags[i].kind = "string"}

\* C14: fragments are only appended; there is one proc fragment for every
\* function declaration of the program whose translation is over, appended
\* by the step that ends the translation of that declaration; the proc
\* fragment of the program body is appended last, when generation ends;
\* the string fragments stand in the order their literals are visited.
C14_FragmentOrder ==
    [][/\ \/ gen'.fragments_ = gen.fragments_
          \/ /\ Len(gen'.fragments_) = Len(gen.fragments_) + 1
             /\ SubSeq(gen'.fragments_, 1, Len(gen.fragments_)) = gen.fragments_
       /\ Cardinality(ProcFragments(gen'.fragments_))
             = irProg'.funDone + (IF irPc' = "done" THEN 1 ELSE 0)
       /\ irLast'.op = "funexit"
             => /\ Len(gen'.fragments_) = Len(gen.fragments_) + 1
                /\ gen'.fragments_[Len(gen'.fragments_)].kind = "proc"
                /\ gen'.fragments_[Len(gen'.fragments_)].decl = IRTop.declId
       /\ irPc' = "done"
             => /\ gen'.fragments_ # <<>>
                /\ gen'.fragments_[Len(gen'.fragments_)].kind = "proc"
                /\ gen'.fragments_[Len(gen'.fragments_)].decl = 0
       /\ \A i, j \in StringFragments(gen'.fragments_) :
             i < j => gen'.fragments_[i].value < gen'.fragments_[j].value
      ]_vars

\* C15: no two Temps handed out have the same id and no two Labels of
\* code addresses handed out have the same name.
C15_NamesUnique ==
    \A i, j \in DOMAIN gen.minted :
        (i # j /\ WhatOf(gen.minted[i]) = WhatOf(gen.minted[j]))
            => IdOf(gen.minted[i]) # IdOf(gen.minted[j])

AccessFor(escape) == IF escape THEN "InFrame" ELSE "InReg"

\* C16: the frame made for a function with n parameters has n + 1 formals,
\* the first in the frame; every parameter, local variable and for-index
\* is in the frame when its escape bit is set and in a register when not.
C16_AccessFollowsEscape ==
    /\ irLast.op = "fun" =>
          /\ Len(gen.levels[irLast.level].frame.formals_) = Len(irLast.formals) + 1
          /\ gen.levels[irLast.level].frame.formals_[1].kind = "InFrame"
          /\ \A i \in DOMAIN irLast.formals :
                irLookupVar(gen, irLast.formals[i].name).access.kind
                    = AccessFor(irLast.formals[i].escape)
    /\ irLast.access # Nullptr => irLast.access.kind = AccessFor(irLast.escape)

\* C18: every variable reference and every call the generator translates
\* finds an entry, the one of the declaration the semantic analyzer binds
\* the name to.
C18_ResolvesAsAnalyzed ==
    irLast.op \in {"var", "assign", "call"}
        => /\ irLast.entry # Nullptr
           /\ irLast.entry.decl = irLast.bind.decl

RECURSIVE Concat(_)
Concat(effs) == IF effs = <<>> THEN <<>> ELSE Head(effs) \o Concat(Tail(effs))

\* C20: the IR of a sequence and of a let executes the IR of every
\* declaration and expression in it, in source order, the last included.
C20_SequenceKeepsAll ==
    irLast.op \in {"seqexit", "letexit"} => irLast.result = Concat(irLast.kids)

\* ------------------------------------------------------------------------
\* Static links
\* ------------------------------------------------------------------------
ParentOf(l) == gen.levels[l].parent
FrameOf(l) == gen.levels[l].frame

RECURSIVE LevelDepth(_)
LevelDepth(l) == IF ParentOf(l) = 0 THEN 1 ELSE 1 + LevelDepth(ParentOf(l))

RECURSIVE Encloses(_, _)
Encloses(outer, l) == l = outer \/ (ParentOf(l) # 0 /\ Encloses(outer, ParentOf(l)))

\* the number of loads in an address
RECURSIVE LoadsIn(_)
LoadsIn(e) ==
    CASE e.op = "MEM" -> 1 + LoadsIn(e.addr)
      [] e.op = "BINOP" -> LoadsIn(e.left) + LoadsIn(e.right)
      [] OTHER -> 0

\* one load of the static link of level l from the frame address e
LinkLoad(l, e) == MEM(BINOP("PLUS", e, CONST(FrameOf(l).formals_[1].offset)))

\* n loads, of the static links of l, of its parent, and so on
RECURSIVE LinkLoads(_, _, _)
LinkLoads(l, n, e) == IF n = 0 THEN e ELSE LinkLoads(ParentOf(l), n - 1, LinkLoad(l, e))

\* the frame address of the enclosing level outer, computed at level l
FrameAddress(l, outer) ==
    LinkLoads(l, LevelDepth(l) - LevelDepth(outer), TEMP(FrameOf(l).fp_))

\* the address a reference made at the current level has to have
AddressOf(entry) ==
    accessToExp(entry.access, FrameAddress(gen.currentLevel_, entry.level))

\* the address in the IR of the last reference
ReferenceMade == IF irLast.op = "assign" THEN irLast.tree.dst ELSE irLast.tree

ResolvedReference == irLast.op \in {"var", "assign"} /\ irLast.entry # Nullptr

ChainsEnd ==
    \A a, b \in DOMAIN gen.levels :
        /\ LoadsIn(followLinks(gen, a, b, TEMP(0))) <= LevelDepth(a) - 1
        /\ Encloses(b, a) =>
              LoadsIn(followLinks(gen, a, b, TEMP(0))) = LevelDepth(a) - LevelDepth(b)

\* the body of a function with a result that is one variable of the
\* level around it, kept in the frame
OuterVariableRead ==
    /\ irLast.op = "var" /\ irLast.entry # Nullptr
    /\ irLast.entry.access.kind = "InFrame"
    /\ ParentOf(gen.currentLevel_) = irLast.entry.level
    /\ irLast'.op = "funexit"
    /\ IRTop.decl.result_type # ""

\* C21: a reference made at level Lc to a variable of level Lv starts from
\* the frame pointer of Lc and loads the static link depth(Lc) - depth(Lv)
\* times, once for every level between, before the access of the variable
\* is applied; the chain ends for every pair of levels; the body of a
\* function f() : int = x, x of the level around f, is
\* Move(Temp(rv), Mem(Mem(FP_f + sl_offset) + offset_of_x)).
C21_StaticLinkChain ==
    /\ [](ChainsEnd /\ (ResolvedReference => ReferenceMade = AddressOf(irLast.entry)))
    /\ [][OuterVariableRead =>
             irLast'.tree =
                MOVE(TEMP(FrameOf(gen.currentLevel_).rv_),
                     MEM(BINOP("PLUS",
                               MEM(BINOP("PLUS", TEMP(FrameOf(gen.currentLevel_).fp_),
                                         CONST(FrameOf(gen.currentLevel_).formals_[1].offset))),
                               CONST(irLast.entry.access.offset))))]_vars

\* a function two levels inside the level of a variable has read it: two
\* loads of static links, then that of the variable
C21_Witness ==
    /\ ResolvedReference
    /\ irLast.entry.access.kind = "InFrame"
    /\ LevelDepth(gen.currentLevel_) - LevelDepth(irLast.entry.level) = 2
    /\ LoadsIn(ReferenceMade) = 3

\* ------------------------------------------------------------------------
\* Calls
\* ------------------------------------------------------------------------
\* the call of the function the analyzer bound the name to, with the
\* translated arguments args: a static link first unless it is built in
ExpectedCall(name, callee, args) ==
    IF callee.decl = 0 THEN CALL(NAME(namedLabel(name)), args)
    ELSE CALL(NAME(namedLabel(name)),
              <<FrameAddress(gen.currentLevel_, callee.parent)>> \o args)

\* C22: a call of a declared function f is Call(Name(f.label), [sl, a1 ..
\* an]), sl the frame address of the level f is declared at, computed from
\* the level of the call: the frame pointer for a function declared in the
\* caller, one load of the static link for a recursive or a sibling call;
\* a call of a built-in function has no static link.
C22_CallTranslation ==
    /\ (irLast.op = "call" /\ irLast.tree # Nullptr)
          => irLast.tree = ExpectedCall(irLast.name, irLast.bind, <<>>)
    /\ irLast.op = "callexit"
          => irLast.tree = ExpectedCall(irLast.name, irLast.bind, irLast.kids)

\* ------------------------------------------------------------------------
\* Runs of for loops
\* ------------------------------------------------------------------------
\* the values the index of loop i had at the passes of label l
RECURSIVE ValuesAt(_, _)
ValuesAt(trail, l) ==
    IF trail = <<>> THEN <<>>
    ELSE IF Head(trail)[1] = l THEN <<Head(trail)[2]>> \o ValuesAt(Tail(trail), l)
    ELSE ValuesAt(Tail(trail), l)

\* lo, lo + 1, .., hi
Range(lo, hi) == [k \in 1..(IF hi >= lo THEN hi - lo + 1 ELSE 0) |-> lo + k - 1]

IsPrefix(s, t) == Len(s) <= Len(t) /\ SubSeq(t, 1, Len(s)) = s

\* s is some rounds of the values r, the last one perhaps not finished
RECURSIVE RoundsOf(_, _)
RoundsOf(s, r) ==
    IF s = <<>> THEN TRUE
    ELSE IF r = <<>> THEN FALSE
    ELSE IF Len(s) <= Len(r) THEN IsPrefix(s, r)
    ELSE SubSeq(s, 1, Len(r)) = r /\ RoundsOf(SubSeq(s, Len(r) + 1, Len(s)), r)

LoopRange(i) == Range(irProg.loops[i].lo.value, irProg.loops[i].hi.value)

\* C23: the body of a for loop runs once for each of lo, lo + 1, .., hi in
\* this order, not at all when lo > hi; i := i + 1 is executed only when
\* i < hi, so never at the largest integer.  Of the outermost loop: the
\* rounds are one round, complete when the run ends.
C23_ForLoopRuns ==
    cpu.status \in {"on", "halted"} =>
        /\ \A i \in DOMAIN irProg.loops :
              /\ RoundsOf(ValuesAt(cpu.trail, irProg.loops[i].body), LoopRange(i))
              /\ \A k \in DOMAIN cpu.trail :
                    cpu.trail[k][1] = irProg.loops[i].incr
                       => cpu.trail[k][2] < irProg.loops[i].hi.value
        /\ irProg.loops # <<>> =>
              /\ IsPrefix(ValuesAt(cpu.trail, irProg.loops[1].body), LoopRange(1))
              /\ cpu.status = "halted" =>
                    ValuesAt(cpu.trail, irProg.loops[1].body) = LoopRange(1)

\* the loops around the expression read last, outermost first: a while
\* is around its test and its body, a for around its body
LoopsAround == SelectSeq(irCtl, LAMBDA f : f.k \in {"for", "while"})
DoneOf(f) == f.held.done
DonesAround == [i \in DOMAIN LoopsAround |-> DoneOf(LoopsAround[i])]
BreakRead == irLast.op = "break"

RECURSIVE Constant(_)
Constant(e) ==
    CASE e.op = "CONST" -> TRUE
      [] e.op = "BINOP" -> Constant(e.left) /\ Constant(e.right)
      [] OTHER -> FALSE
RECURSIVE OfConstants(_)
OfConstants(t) ==
    CASE t.kind = "Ex" -> Constant(t.tree)
      [] t.kind = "Cx" /\ t.tree.fn = "rel" -> Constant(t.tree.left) /\ Constant(t.tree.right)
      [] t.kind = "Cx" /\ t.tree.fn \in {"and", "or"} ->
            OfConstants(t.tree.left) /\ OfConstants(t.tree.right)
      [] OTHER -> FALSE

\* the operator the program has where the label z was made: "AND", "OR"
Written(z) == (CHOOSE i \in DOMAIN irProg.written : irProg.written[i][1] = z)
WrittenAs(z) == irProg.written[Written(z)][2]

\* whether a translated operand is non-zero, from what it holds: a
\* constant, a comparison of constants, an AND or an OR of operands
RECURSIVE NonZero(_)
NonZero(t) ==
    CASE t.kind = "Ex" -> Eval(t.tree, <<>>) # 0
      [] t.kind = "Cx" /\ t.tree.fn = "rel" ->
            Holds(t.tree.relop, Eval(t.tree.left, <<>>), Eval(t.tree.right, <<>>))
      [] t.kind = "Cx" /\ WrittenAs(t.tree.z) = "AND" ->
            NonZero(t.tree.left) /\ NonZero(t.tree.right)
      [] t.kind = "Cx" /\ WrittenAs(t.tree.z) = "OR" ->
            NonZero(t.tree.left) \/ NonZero(t.tree.right)
      [] OTHER -> FALSE

\* the run reaches the code of the right operand of every AND and OR
\* inside t, itself reached or not, only as the left operand decides
RECURSIVE ShortCircuits(_, _)
ShortCircuits(t, reached) ==
    IF t.kind = "Cx" /\ t.tree.fn \in {"and", "or"}
    THEN /\ t.tree.z \in cpu.jumped <=>
               reached /\ (IF WrittenAs(t.tree.z) = "AND" THEN NonZero(t.tree.left)
                           ELSE ~NonZero(t.tree.left))
         /\ ShortCircuits(t.tree.left, reached)
         /\ ShortCircuits(t.tree.right, t.tree.z \in cpu.jumped)
    ELSE TRUE

Connective(u) == u.cx.tree.fn \in {"and", "or"} /\ OfConstants(u.cx)

\* C25: run to its end, the IR of a & b and of a | b has reached the code
\* of b only if a was non-zero (zero for |), has jumped to the true label
\* if the connective holds and to the false label if it does not, and
\* kept as a value has 1 or 0 in the result temp accordingly
C25_ShortCircuit ==
    cpu.status = "halted" =>
        \A i \in DOMAIN irProg.uses :
            Connective(irProg.uses[i]) =>
                /\ ShortCircuits(irProg.uses[i].cx, TRUE)
                /\ irProg.uses[i].t \in cpu.jumped <=> NonZero(irProg.uses[i].cx)
                /\ irProg.uses[i].f \in cpu.jumped <=> ~NonZero(irProg.uses[i].cx)
                /\ irProg.uses[i].as = "value" =>
                      cpu.temps[irProg.uses[i].r] = IF NonZero(irProg.uses[i].cx) THEN 1 ELSE 0

\* an AND whose left operand is zero, kept as a value, has been run
C25_Witness ==
    /\ cpu.status = "halted"
    /\ \E i \in DOMAIN irProg.uses :
          /\ irProg.uses[i].as = "value"
          /\ Connective(irProg.uses[i])
          /\ WrittenAs(irProg.uses[i].cx.tree.z) = "AND"
          /\ ~NonZero(irProg.uses[i].cx.tree.left)
          /\ irProg.uses[i].cx.tree.z \notin cpu.jumped
          /\ cpu.temps[irProg.uses[i].r] = 0

\* the last step compared two types that both exist: the operands of a
\* comparison, or the two branches of an if
TypesCompared ==
    /\ semLast.op \in {"cmp", "ifelse"}
    /\ semLast.exp # Null /\ semLast.act # Null

\* C26: a comparison of two types gives the same answer with the two
\* types exchanged, so that `x = nil` is accepted exactly when `nil = x`
\* is, and an if with the branches r and nil exactly when the if with the
\* branches nil and r is
C26_EqualsSymmetric ==
    TypesCompared =>
        (equals(heap, semLast.exp, semLast.act) <=> equals(heap, semLast.act, semLast.exp))

\* following the bindings from the alias t never leaves the aliases: the
\* path comes back to a type it has passed
AliasLoop(h, t) ==
    LET p == aliasPath(h, t, Len(h) + 1) IN
    \E i \in 1..Len(p) : \E j \in (i + 1)..Len(p) : p[i] = p[j]

\* C27: a batch of type declarations is rejected for a cycle only when
\* the bindings from one of its aliases never reach a type that is not
\* an alias
C27_OnlyRealCycles ==
    (semLast.op = "typegroup" /\ semLast.name = "cycle")
        => \E j \in 1..Len(semLast.decls) :
               AliasLoop(heap, lookupType(typeEnv_, semLast.decls[j].name))

\* the last step translated a variable read in the initializer of a
\* variable declaration, or as the bound lo of a for
InInitializer == irLast.op = "var" /\ irLast.access # Nullptr
InBound == irLast.op = "for" /\ irLast.bind # Nullptr
\* the declaration that step is the translation of
Declaring == irProg.nodes

\* C30: a variable read in the initializer of `var x := e` or as the
\* bound lo of a for is found by the generator, and is the declaration
\* the analyzer finds in the scope around the declaration, never the
\* variable or the index being declared
C30_EnclosingScope ==
    (InInitializer \/ InBound) =>
        /\ irLast.entry # Nullptr
        /\ irLast.entry.decl = irLast.bind.decl
        /\ irLast.entry.decl # Declaring

\* the labels the jumps of a body name, and the labels the body defines
JumpsOf(s) ==
    CASE s.op = "JUMP" -> {s.targets[i] : i \in DOMAIN s.targets}
      [] s.op = "CJUMP" -> {s.trueLabel, s.falseLabel}
      [] OTHER -> {}
JumpedTo(code) == UNION {JumpsOf(code[i]) : i \in DOMAIN code}
DefinedIn(code) == {code[i].label : i \in {j \in DOMAIN code : code[j].op = "LABEL"}}

\* C28: every label a jump in the body of a procedure fragment names is
\* defined by a LABEL of the body of the same fragment
C28_JumpsStayInside ==
    \A i \in ProcFragments(gen.fragments_) :
        JumpedTo(Linear(gen.fragments_[i].body)) \subseteq DefinedIn(Linear(gen.fragments_[i].body))

\* the labels the run has passed with a loop index, and the first label
\* of a statement: the body label of a for loop
PassedLabels == {cpu.trail[i][1] : i \in DOMAIN cpu.trail}
FirstLabel(code) == code[CHOOSE i \in DOMAIN code :
                            /\ code[i].op = "LABEL"
                            /\ \A j \in 1..(i - 1) : code[j].op # "LABEL"].label
\* the branch is a for loop
Loops(branch) == branch.kind = "Nx" /\ branch.tree # Nullptr
\* the run has been through the body of the loop the branch is
Performed(branch) == FirstLabel(Linear(branch.tree)) \in PassedLabels

\* an if with an else whose branches are for loops and whose test is made
\* of constants, standing alone as the program
LoopBranches(b) ==
    /\ b.ty = "unit" /\ Loops(b.then) /\ Loops(b.else) /\ OfConstants(b.test)
    /\ irProg.branches = <<b>>

\* C29: run to its end, the IR of `if c then s1 else s2` with two for
\* loops as branches has run the loop s1 when c is not zero and the loop
\* s2 when c is zero
C29_BranchesKept ==
    cpu.status = "halted" =>
        \A i \in DOMAIN irProg.branches :
            LoopBranches(irProg.branches[i]) =>
                IF NonZero(irProg.branches[i].test)
                THEN Performed(irProg.branches[i].then)
                ELSE Performed(irProg.branches[i].else)

\* ========================================================================
\* Specifications
\* ========================================================================
Init == SymStart /\ EscStart /\ SemStart /\ IRStart

\* the symbol table under arbitrary operations
SpecSym == Init /\ [][SymNext]_vars
\* escape analysis of an arbitrary program
SpecEsc == Init /\ [][EscNext]_vars

\* semantic analysis of a program of the "types" part
InitTypes == Init /\ fragment = "types"
NextTypes ==
    \/ SemLetEnter \/ SemTypeGroup \/ SemFunHeaders \/ SemFunBodyEnd \/ SemVarDecl
    \/ SemExpr \/ SemLetExit \/ SemFinish
SpecSemTypes == InitTypes /\ [][NextTypes]_vars

\* semantic analysis of a program of the "functions" part
InitFuns == Init /\ fragment = "functions"
NextFuns ==
    \/ SemLetEnter \/ SemTypeGroup \/ SemFunHeaders \/ SemFunBodyEnd \/ SemVarDecl
    \/ SemExpr \/ SemLetExit \/ SemFinish
SpecSemFuns == InitFuns /\ [][NextFuns]_vars

\* semantic analysis of a program of the "loops" part
InitLoops == Init /\ fragment = "loops"
NextLoops ==
    \/ SemLetEnter \/ SemFunHeaders \/ SemFunBodyEnd \/ SemVarDecl
    \/ SemForEnter \/ SemForExit \/ SemWhileEnter \/ SemWhileExit \/ SemBreak
    \/ SemExpr \/ SemLetExit \/ SemFinish
SpecSemLoops == InitLoops /\ [][NextLoops]_vars

\* the environments of the IR generator under arbitrary operations
InitIR == Init /\ fragment = "functions"
SpecIREnv == InitIR /\ [][IREnvNext]_vars

\* IR generation of a program the semantic analyzer accepts
SpecIRGen == InitIR /\ [][IRGenNext]_vars

\* IR generation of a program of nested functions
InitLinks == Init /\ fragment = "links"
NextLinks ==
    \/ IRGenerate \/ IRLeaf \/ IRLetEnter \/ IRLetExit \/ IRVarDecl
    \/ IRFunEnter \/ IRFunExit \/ IRCall \/ IRCallExit \/ IRFinish
SpecIRLinks == InitLinks /\ [][NextLinks]_vars

\* IR generation of a program of for loops, and a run of its IR
InitRun == Init /\ fragment = "run"
NextRun == IRGenerate \/ IRLeaf \/ IRForEnter \/ IRForExit \/ IRFinish \/ IRLoad \/ IRStep
SpecIRRun == InitRun /\ [][NextRun]_vars
\* IR generation of a program of loops, sequences and breaks
InitBreaks == Init /\ fragment = "breaks"
NextBreaks ==
    \/ IRGenerate \/ IRLeaf \/ IRSeqEnter \/ IRSeqExit \/ IRForEnter \/ IRForExit
    \/ IRWhileEnter \/ IRWhileExit \/ IRFinish
SpecIRBreaks == InitBreaks /\ [][NextBreaks]_vars
\* IR generation of a program of operators, and a run of its IR
InitConds == Init /\ fragment = "conds"
NextConds == IRGenerate \/ IRLeaf \/ IROpEnter \/ IROpExit \/ IRFinish \/ IRLoad \/ IRStep
SpecIRConds == InitConds /\ [][NextConds]_vars
\* IR generation of a program of ifs and for loops, and a run of its IR
InitBranches == Init /\ fragment = "branches"
NextBranches ==
    \/ IRGenerate \/ IRLeaf \/ IRIfEnter \/ IRIfExit \/ IRForEnter \/ IRForExit \/ IRFinish
    \/ IRLoad \/ IRStep
SpecIRBranches == InitBranches /\ [][NextBranches]_vars
====
